---- MODULE Spec2Model ----
(***************************************************************************)
(* A model of taubot's accounting core (src/src/accounting.py): the        *)
(* in-memory account store (InMemoryServer), the tax engine (TaxMan), the  *)
(* hash-chained ledger (LedgerServer: _ledger_write / _read_ledger) and    *)
(* the command layer's authorize command (src/src/commands.py).            *)
(*                                                                         *)
(* Text is modelled with TLA+ strings: a ledger line is the string the     *)
(* code writes (fields joined by one space) and the loader splits it on    *)
(* whitespace again; numbers are printed and parsed digit by digit.        *)
(***************************************************************************)
EXTENDS Integers, Sequences, FiniteSets, TLC

VARIABLES
  server,   \* the server object: an InMemoryServer or a LedgerServer
  ledger,   \* the ledger file: a sequence of lines
  now,      \* the wall clock, time.time()
  last,     \* the last call made on the server and its outcome
  hist      \* what has happened to the watched recurring transfer since it was created

vars == <<server, ledger, now, last, hist>>

----------------------------------------------------------------------------
(* Bounds of the model.                                                    *)

\* the length of the ledger file from which live operations stop
MaxLedger == 6
\* largest salt generate_salt_and_hash draws (the code draws from 1..1000000)
MaxSalt == 8
\* most money print_money is let to bring into existence
MaxMoney == 3
\* how far below zero remove_funds is let to take a balance
MaxDebt == 1
\* most ticks a recurring transfer is spread over
MaxTicks == 2
\* the clock value after which nothing reads the clock any more
MaxClock == 8
\* ticks a watched recurring transfer is followed for
MaxWatch == 4
\* calls made on a server prepared for taxation
MaxTaxOps == 3
\* ticks taken with auto-tax on, ticks taken with auto-tax off, uses of the switch
MaxAutoTicks == 100
MaxIdleTicks == 2
MaxToggles == 3
\* calls made on the server that is restarted
MaxReplayOps == 5
\* calls made on the server that is stopped
MaxCrashOps == 3
\* calls made on the server on which accounts are opened, linked and deleted
MaxAccountOps == 4
\* calls made on the server on which money is printed and removed
MaxMoneyOps == 3
\* calls made on the server on which proxies are granted and used
MaxProxyOps == 4

\* calls made to a server on which identities are linked
MaxAliasOps == 4

\* calls made to a server before it is started again on its ledger
MaxEntryOps == 2

\* starts of the program on the ledger it finds
MaxRestarts == 1

\* calls made to a server that ticks over arbitrary recurring transfers
MaxTickOps == 3

\* calls made to a server on which identities of every form open accounts
MaxOpenOps == 3

\* characters moved from one field of a sealed ledger to the next
MaxResplits == 2

\* hex digits of the digests the difficulty test is tried on
MaxHexDigits == 2

\* calls that add or remove a tax bracket
MaxBracketOps == 3

\* calls that open, alias or delete an account
MaxIdentityOps == 4

\* calls of the commands2 layer
MaxCommandOps == 2

\* requests a RequestServer handles, the nonces they draw from, and the
\* size of its store of used nonces (10000 in the code)
MaxRequests == 5
MaxNonces == 3
max_nonce_count == 2

\* times the tick loop wakes up, calls of other tasks while it sleeps
MaxNaps == 2
MaxLoopOps == 1
\* calls made on the pair of test servers
MaxRefineOps == 3

\* tick_loop: 'Let's make a tick twice every day.', 12 * 60 * 60 seconds
tick_duration == 43200

----------------------------------------------------------------------------
(* Text: characters, printing and parsing.                                 *)

None == "None"

\* The characters the model's strings are made of, in code point order.
Alphabet == " &-./0123456789:<>@ABCDEFGHIJKLMNOPQRSTUVWXYZ_abcdefghijklmnopqrstuvwxyz"

Chars == {SubSeq(Alphabet, i, i) : i \in 1..Len(Alphabet)}

\* ord(c), up to an order-preserving renumbering
CodeOf == [c \in Chars |-> CHOOSE i \in 1..Len(Alphabet) : SubSeq(Alphabet, i, i) = c]

Whitespace == {" "}

DigitChars == {"0", "1", "2", "3", "4", "5", "6", "7", "8", "9"}

DigitVal == [c \in DigitChars |-> CodeOf[c] - CodeOf["0"]]

\* str.split(): the maximal runs of non-whitespace characters, in order
split(s) ==
  LET IsSpace(i) == SubSeq(s, i, i) \in Whitespace
      starts == {i \in 1..Len(s) : ~IsSpace(i) /\ (i = 1 \/ IsSpace(i - 1))}
      ends == {i \in 1..Len(s) : ~IsSpace(i) /\ (i = Len(s) \/ IsSpace(i + 1))}
      Nth(S, k) == CHOOSE i \in S : Cardinality({j \in S : j < i}) = k - 1
  IN [k \in 1..Cardinality(starts) |-> SubSeq(s, Nth(starts, k), Nth(ends, k))]

\* ' '.join(elems)
RECURSIVE join(_)
join(elems) ==
  IF elems = <<>> THEN ""
  ELSE IF Len(elems) = 1 THEN elems[1]
  ELSE elems[1] \o " " \o join(Tail(elems))

\* the concatenation of a list of strings
RECURSIVE Concat(_)
Concat(elems) == IF elems = <<>> THEN "" ELSE elems[1] \o Concat(Tail(elems))

\* str.startswith
startswith(s, prefix) == Len(s) >= Len(prefix) /\ SubSeq(s, 1, Len(prefix)) = prefix

\* s < t for Python strings (lexicographic by code point)
RECURSIVE StrLess(_, _)
StrLess(s, t) ==
  IF t = "" THEN FALSE
  ELSE IF s = "" THEN TRUE
  ELSE IF Head(s) = Head(t) THEN StrLess(Tail(s), Tail(t))
  ELSE CodeOf[Head(s)] < CodeOf[Head(t)]

\* the value of a non-empty string of decimal digits
RECURSIVE DigitsValue(_, _)
DigitsValue(s, acc) ==
  IF s = "" THEN acc ELSE DigitsValue(Tail(s), 10 * acc + DigitVal[Head(s)])

AllDigits(s) == s # "" /\ \A i \in 1..Len(s) : SubSeq(s, i, i) \in DigitChars

\* int(s): [ok, val]; ok is FALSE where Python raises ValueError
ParseInt(s) ==
  IF AllDigits(s) THEN [ok |-> TRUE, val |-> DigitsValue(s, 0)]
  ELSE IF s # "" /\ Head(s) = "-" /\ AllDigits(Tail(s))
    THEN [ok |-> TRUE, val |-> 0 - DigitsValue(Tail(s), 0)]
    ELSE [ok |-> FALSE, val |-> 0]

\* the position of the first occurrence of character c in s, or 0
IndexOf(s, c) ==
  IF \E i \in 1..Len(s) : SubSeq(s, i, i) = c
    THEN CHOOSE i \in 1..Len(s) :
           SubSeq(s, i, i) = c /\ \A j \in 1..(i - 1) : SubSeq(s, j, j) # c
    ELSE 0

\* float(s) for the texts str(float) gives this model's whole-second clock
\* values: digits "." digits
ParseFloat(s) ==
  LET dot == IndexOf(s, ".")
      whole == IF dot = 0 THEN s ELSE SubSeq(s, 1, dot - 1)
      part == IF dot = 0 THEN "0" ELSE SubSeq(s, dot + 1, Len(s))
  IN IF AllDigits(whole) /\ AllDigits(part) /\ DigitsValue(part, 0) = 0
       THEN [ok |-> TRUE, val |-> DigitsValue(whole, 0)]
       ELSE [ok |-> FALSE, val |-> 0]

\* str(t) of a float holding a whole number of seconds
StrFloat(t) == ToString(t) \o ".0"

----------------------------------------------------------------------------
(* Numbers: Python ints and fractions.Fraction.                            *)

RECURSIVE Gcd(_, _)
Gcd(a, b) == IF b = 0 THEN a ELSE Gcd(b, a % b)

Abs(x) == IF x < 0 THEN 0 - x ELSE x

\* Fraction(n, d), in lowest terms with a positive denominator
Fraction(n, d) ==
  LET g == Gcd(Abs(n), Abs(d))
      sgn == IF d < 0 THEN 0 - 1 ELSE 1
  IN [n |-> sgn * (n \div g), d |-> sgn * (d \div g), frac |-> TRUE]

\* a Python int
PyInt(n) == [n |-> n, d |-> 1, frac |-> FALSE]

\* x + y, x - y: a Fraction as soon as one operand is a Fraction
NumAdd(x, y) ==
  IF x.frac \/ y.frac THEN Fraction(x.n * y.d + y.n * x.d, x.d * y.d)
  ELSE PyInt(x.n + y.n)

NumSub(x, y) ==
  IF x.frac \/ y.frac THEN Fraction(x.n * y.d - y.n * x.d, x.d * y.d)
  ELSE PyInt(x.n - y.n)

NumMul(x, y) ==
  IF x.frac \/ y.frac THEN Fraction(x.n * y.n, x.d * y.d)
  ELSE PyInt(x.n * y.n)

\* x / k for a Fraction x and a non-zero int k
NumDivInt(x, k) == Fraction(x.n, x.d * k)

NumLe(x, y) == x.n * y.d <= y.n * x.d
NumLt(x, y) == x.n * y.d < y.n * x.d
NumEq(x, y) == x.n * y.d = y.n * x.d

Zero == PyInt(0)

\* round(x) of a Fraction: to the nearest int, ties to the even one
Round(x) ==
  LET fl == x.n \div x.d
      twice == 2 * (x.n - fl * x.d)
  IN IF twice < x.d THEN PyInt(fl)
     ELSE IF twice > x.d THEN PyInt(fl + 1)
     ELSE IF fl % 2 = 0 THEN PyInt(fl) ELSE PyInt(fl + 1)

\* how _ledger_write prints a number: '%d/%d' for a Fraction, str(x) otherwise
StrNum(x) ==
  IF x.frac THEN ToString(x.n) \o "/" \o ToString(x.d) ELSE ToString(x.n)

\* Fraction(s) for the texts "n/d" and "n"; ok is FALSE where Python raises
ParseFraction(s) ==
  LET slash == IndexOf(s, "/")
      num == ParseInt(IF slash = 0 THEN s ELSE SubSeq(s, 1, slash - 1))
      den == IF slash = 0 THEN [ok |-> TRUE, val |-> 1]
             ELSE ParseInt(SubSeq(s, slash + 1, Len(s)))
  IN IF num.ok /\ den.ok /\ den.val > 0 /\ (slash = 0 \/ AllDigits(SubSeq(s, slash + 1, Len(s))))
       THEN [ok |-> TRUE, val |-> Fraction(num.val, den.val)]
       ELSE [ok |-> FALSE, val |-> Zero]

----------------------------------------------------------------------------
(* Account identifiers.  An AccountId is modelled by its chain of atomic   *)
(* identifiers: <<"a">> is RedditAccountId("a"), <<"p", "a">> is           *)
(* ProxyAccountId(p, a).  AccountId.__eq__ and __hash__ go through str().  *)

\* the pieces of s between the occurrences of character c (str.split(c))
RECURSIVE SplitOn(_, _, _, _)
SplitOn(s, c, cur, acc) ==
  IF s = "" THEN Append(acc, cur)
  ELSE IF Head(s) = c THEN SplitOn(Tail(s), c, "", Append(acc, cur))
  ELSE SplitOn(Tail(s), c, cur \o Head(s), acc)

\* str(DiscordAccountId(x)) is 'discord/x'; str(RedditAccountId(v)) is v
parse_atomic_account_id(value) ==
  IF startswith(value, "<@") /\ Len(value) >= 3 /\ SubSeq(value, Len(value), Len(value)) = ">"
    THEN IF startswith(value, "<@!")
      THEN "discord/" \o SubSeq(value, 4, Len(value) - 1)
      ELSE "discord/" \o SubSeq(value, 3, Len(value) - 1)
    ELSE value

parse_account_id(value) ==
  LET elems == SplitOn(value, ":", "", <<>>)
  IN [i \in 1..Len(elems) |-> parse_atomic_account_id(elems[i])]

\* str(id): '%s:%s' % (proxy_id, proxied_id) down the chain
RECURSIVE IdStr(_)
IdStr(id) == IF Len(id) = 1 THEN id[1] ELSE id[1] \o ":" \o IdStr(Tail(id))

unwrap_proxies(account_id) == <<account_id[Len(account_id)]>>

\* class Authorization(Enum)
Authorization == [CITIZEN |-> 0, OFFICER |-> 1, ADMIN |-> 2, DEVELOPER |-> 3]

AuthNames == {"CITIZEN", "OFFICER", "ADMIN", "DEVELOPER"}

----------------------------------------------------------------------------
(* Calls.  A method takes and returns a world W: the server object, the    *)
(* ledger file, the clock, the exception it raised (None if none) and its  *)
(* return value.  A raised exception stops whatever would have followed.   *)

World(s, l, t) == [server |-> s, ledger |-> l, now |-> t, exc |-> None, ret |-> None]

Raise(W, e) == [W EXCEPT !.exc = e]

Return(W, v) == [W EXCEPT !.ret = v]

----------------------------------------------------------------------------
(* class InMemoryAccount, class InMemoryRecurringTransfer.  An account     *)
(* object is referred to by its uuid.                                      *)

InMemoryAccount(account_uuid) ==
  [uuid |-> account_uuid, balance |-> Zero, frozen |-> FALSE, public |-> FALSE,
   auth |-> "CITIZEN", public_keys |-> <<>>, proxies |-> {}]

get_balance(W, account) == W.server.objs[account].balance

is_frozen(W, account) == W.server.objs[account].frozen

get_authorization(W, account) == W.server.objs[account].auth

set_balance(W, account, new_balance) ==
  [W EXCEPT !.server.objs[account].balance = Fraction(new_balance.n, new_balance.d)]

InMemoryRecurringTransfer(author, source, destination, total_amount, tick_count, remaining_amount, transfer_id) ==
  [id |-> transfer_id, author |-> author, source |-> source, destination |-> destination,
   total_amount |-> total_amount, tick_count |-> tick_count, remaining_amount |-> remaining_amount]

----------------------------------------------------------------------------
(* class InMemoryServer: accounts.                                         *)

has_account(W, id) == IdStr(unwrap_proxies(id)) \in DOMAIN W.server.accounts

get_account(W, id) == W.server.accounts[IdStr(unwrap_proxies(id))]

get_account_from_string(W, id) == get_account(W, parse_account_id(id))

get_account_ids(W, account) ==
  IF account \in DOMAIN W.server.inv_accounts THEN W.server.inv_accounts[account] ELSE <<>>

\* get_account_ids(account)[0]; the caller sees IndexError when the list is empty
get_account_id(W, account) == get_account_ids(W, account)[1]

\* set(self.accounts.values())
get_accounts(W) == {W.server.accounts[k] : k \in DOMAIN W.server.accounts}

\* an open_account that does not look whether the account exists
open_account_unchecked(W, id, account_uuid) ==
  Return([W EXCEPT
    !.server.objs = (account_uuid :> InMemoryAccount(account_uuid)) @@ @,
    !.server.accounts = (IdStr(id) :> account_uuid) @@ @,
    !.server.inv_accounts = (account_uuid :> Append(get_account_ids(W, account_uuid), id)) @@ @],
  account_uuid)

InMemoryServer_open_account(W, id, account_uuid) ==
  IF has_account(W, id) THEN Raise(W, "Account already exists.")
  ELSE Return([W EXCEPT
         !.server.objs = (account_uuid :> InMemoryAccount(account_uuid)) @@ @,
         !.server.accounts = (IdStr(id) :> account_uuid) @@ @,
         !.server.inv_accounts = (account_uuid :> Append(get_account_ids(W, account_uuid), id)) @@ @],
       account_uuid)

\* InMemoryServer.__init__ on an object of class W.server.cls; uuid4 is the
\* uuid the government account draws
InMemoryServer_init(W, uuid4) ==
  LET W0 == [W EXCEPT !.server =
               [cls |-> W.server.cls, accounts |-> <<>>, inv_accounts |-> <<>>, objs |-> <<>>,
                gov_account |-> None, recurring_transfers |-> <<>>]]
      W1 == InMemoryServer_open_account(W0, <<"@government">>, uuid4)
  IN Return([W1 EXCEPT !.server.gov_account = uuid4,
                       !.server.objs[uuid4].auth = "DEVELOPER"], None)

\* the recurring transfers left when those with account as an end are dropped
WithoutTransfersOf(transfers, account) ==
  SelectSeq(transfers, LAMBDA r : r.destination # account /\ r.source # account)

\* a delete_account that unbinds every identity of the account, not only id
delete_account_with_aliases(W, author, id) ==
  IF has_account(W, id)
    THEN LET account == W.server.accounts[IdStr(id)]
         IN Return([W EXCEPT
              !.server.recurring_transfers = WithoutTransfersOf(@, account),
              !.server.accounts = [k \in {x \in DOMAIN @ : @[x] # account} |-> @[k]],
              !.server.inv_accounts[account] = <<>>], TRUE)
    ELSE Return(W, None)

\* a delete_account that leaves the recurring transfers of the account alone
delete_account_keeping_transfers(W, author, id) ==
  IF has_account(W, id)
    THEN LET key == IdStr(id)
             account == W.server.accounts[key]
         IN Return([W EXCEPT
              !.server.accounts = [k \in (DOMAIN @) \ {key} |-> @[k]],
              !.server.inv_accounts[account] = Tail(@)], TRUE)
    ELSE Return(W, None)

InMemoryServer_delete_account(W, author, id) ==
  IF has_account(W, id)
    THEN LET key == IdStr(id)
             account == W.server.accounts[key]
         IN IF key \notin DOMAIN W.server.accounts THEN Raise(W, "KeyError")
            ELSE IF get_account_ids(W, account) = <<>> THEN Raise(W, "IndexError")
            ELSE Return([W EXCEPT
              !.server.recurring_transfers = WithoutTransfersOf(@, account),
              !.server.accounts = [k \in (DOMAIN @) \ {key} |-> @[k]],
              !.server.inv_accounts[account] = Tail(@)], TRUE)
    ELSE Return(W, None)

InMemoryServer_add_account_alias(W, account, alias_id) ==
  Return([W EXCEPT
    !.server.accounts = (IdStr(alias_id) :> account) @@ @,
    !.server.inv_accounts = (account :> Append(get_account_ids(W, account), alias_id)) @@ @], None)

InMemoryServer_mark_public(W, author, account, new_public) ==
  Return([W EXCEPT !.server.objs[account].public = new_public], None)

InMemoryServer_authorize(W, author, account, auth_level) ==
  Return([W EXCEPT !.server.objs[account].auth = auth_level], None)

InMemoryServer_set_frozen(W, author, account, frozen) ==
  Return([W EXCEPT !.server.objs[account].frozen = frozen], None)

InMemoryServer_add_public_key(W, account, key) ==
  Return([W EXCEPT !.server.objs[account].public_keys = Append(@, key)], None)

\* an add_proxy that makes account the only proxy of proxied_account
add_proxy_replacing(W, author, account, proxied_account) ==
  Return([W EXCEPT !.server.objs[proxied_account].proxies = {account}], None)

InMemoryServer_add_proxy(W, author, account, proxied_account) ==
  Return([W EXCEPT !.server.objs[proxied_account].proxies = @ \cup {account}], None)

\* a remove_proxy that reports and removes nothing
remove_proxy_keeping(W, author, account, proxied_account) ==
  Return(W, account \notin W.server.objs[proxied_account].proxies)

InMemoryServer_remove_proxy(W, author, account, proxied_account) ==
  LET prev_in == account \in W.server.objs[proxied_account].proxies
  IN Return([W EXCEPT !.server.objs[proxied_account].proxies = @ \ {account}], ~prev_in)

----------------------------------------------------------------------------
(* class InMemoryServer: money.                                            *)

InMemoryServer_print_money(W, author, account, amount) ==
  Return(set_balance(W, account, NumAdd(get_balance(W, account), amount)), None)

InMemoryServer_remove_funds(W, author, account, amount) ==
  Return(set_balance(W, account, NumSub(get_balance(W, account), amount)), None)

\* a can_transfer that does not look at the frozen flags
can_transfer_ignoring_frozen(W, source, destination, amount) ==
  /\ NumLt(Zero, amount)
  /\ NumLe(Zero, NumSub(get_balance(W, source), amount))

can_transfer(W, source, destination, amount) ==
  /\ NumLt(Zero, amount)
  /\ NumLe(Zero, NumSub(get_balance(W, source), amount))
  /\ ~is_frozen(W, source)
  /\ ~is_frozen(W, destination)

\* a transfer that credits the destination and leaves the source as it was
transfer_without_debit(W, author, source, destination, amount) ==
  IF ~can_transfer(W, source, destination, amount)
    THEN Raise(W, "Cannot perform transfer.")
    ELSE Return(set_balance(W, destination, NumAdd(get_balance(W, destination), amount)), None)

InMemoryServer_transfer(W, author, source, destination, amount) ==
  IF ~can_transfer(W, source, destination, amount)
    THEN Raise(W, "Cannot perform transfer.")
    ELSE LET W1 == set_balance(W, source, NumSub(get_balance(W, source), amount))
         IN Return(set_balance(W1, destination, NumAdd(get_balance(W1, destination), amount)), None)

\* the position of the recurring transfer with this id, or 0
TransferIndex(W, id) ==
  IF \E i \in 1..Len(W.server.recurring_transfers) : W.server.recurring_transfers[i].id = id
    THEN CHOOSE i \in 1..Len(W.server.recurring_transfers) : W.server.recurring_transfers[i].id = id
    ELSE 0

InMemoryServer_create_recurring_transfer(W, author, source, destination, total_amount, tick_count, transfer_id) ==
  LET rec_transfer == InMemoryRecurringTransfer(author, source, destination, total_amount,
                                                tick_count, total_amount, transfer_id)
      at == TransferIndex(W, transfer_id)
  IN Return([W EXCEPT !.server.recurring_transfers =
               IF at = 0 THEN Append(@, rec_transfer) ELSE [@ EXCEPT ![at] = rec_transfer]],
            rec_transfer)

\* a perform_recurring_transfer that forgets to lower the remaining amount
perform_recurring_transfer_keeping_remaining(W, transfer, amount) ==
  InMemoryServer_transfer(W, transfer.author, transfer.source, transfer.destination, amount)

InMemoryServer_perform_recurring_transfer(W, transfer, amount) ==
  LET W1 == InMemoryServer_transfer(W, transfer.author, transfer.source, transfer.destination, amount)
      at == TransferIndex(W, transfer.id)
      left == NumSub(W.server.recurring_transfers[at].remaining_amount, amount)
  IN IF W1.exc # None THEN W1
     ELSE [W1 EXCEPT !.server.recurring_transfers[at].remaining_amount = Fraction(left.n, left.d)]

----------------------------------------------------------------------------
(* The hash chain.  SHA3-256 is modelled as an ideal hash: a digest is     *)
(* determined by, and determines, the bytes fed to the hash object - the   *)
(* previous digest and then the items one after the other with nothing     *)
(* between them.  Its first two hex digits, the ones the difficulty test   *)
(* looks at, are computed from those bytes.                                *)

\* the sum of the bytes of s from the lo-th to the hi-th
RECURSIVE SumCodes(_, _, _)
SumCodes(s, lo, hi) ==
  IF lo > hi THEN 0
  ELSE IF lo = hi THEN CodeOf[SubSeq(s, lo, lo)]
  ELSE LET mid == (lo + hi) \div 2
       IN SumCodes(s, lo, mid) + SumCodes(s, mid + 1, hi)

ByteSum(s) == SumCodes(s, 1, Len(s))

HexChars == <<"0", "1", "2", "3", "4", "5", "6", "7", "8", "9", "a", "b", "c", "d", "e", "f">>

\* int(c, 16)
HexVal(c) == (CHOOSE i \in 1..16 : HexChars[i] = c) - 1

\* the part of the digest the difficulty test reads: its first byte, as two
\* hex digits, from the previous digest and the sum of the bytes fed in
HexOfSum(previous_hash, byte_sum) ==
  LET seed == IF previous_hash = <<>> THEN 0
              ELSE 16 * HexVal(previous_hash.hex[1]) + HexVal(previous_hash.hex[2])
      sum == seed + byte_sum
      byte == (sum % 8) * 32 + ((sum \div 8) % 32)
  IN <<HexChars[(byte \div 16) + 1], HexChars[(byte % 16) + 1]>>

LeadingHex(previous_hash, bytes) == HexOfSum(previous_hash, ByteSum(bytes))

\* b'', the digest the chain starts from
EmptyHash == <<>>

\* SHA3_256.new(previous_hash) updated with every item; the value stands for
\* both hexdigest() and digest()
compute_hash(previous_hash, elements) ==
  LET bytes == Concat(elements)
  IN [hex |-> LeadingHex(previous_hash, bytes), of |-> <<previous_hash, bytes>>]

\* a difficulty test that looks at whole hex digits only
has_leading_zeros_by_digit(hexdigest, zero_count) ==
  \A i \in 1..(zero_count \div 4) : hexdigest.hex[i] = "0"

has_leading_zeros(hexdigest, zero_count) ==
  LET whole == zero_count \div 4
      rem == zero_count % 4
  IN IF \E i \in 1..whole : hexdigest.hex[i] # "0" THEN FALSE
     ELSE IF rem > 0
       THEN LET digit == HexVal(hexdigest.hex[whole + 1])
            IN IF rem = 1 THEN digit < 8
               ELSE IF rem = 2 THEN digit < 4
               ELSE digit < 2
       ELSE TRUE

\* random.randint(1, 1000000), as far as the model draws
Salts == 1..MaxSalt

\* the (salt, hash) pairs the loop of generate_salt_and_hash can end with
generate_salt_and_hash(previous_hash, elements, zero_count) ==
  LET rest == ByteSum(Concat(elements))
      \* the salts whose hash passes has_leading_zeros
      found == {n \in Salts :
                  has_leading_zeros([hex |-> HexOfSum(previous_hash, ByteSum(ToString(n)) + rest)],
                                    zero_count)}
  IN {<<ToString(n), compute_hash(previous_hash, <<ToString(n)>> \o elements)>> : n \in found}

\* A ledger line: ' '.join([hexdigest, salt] + elems), kept as the digest
\* token and the text that follows its separating space.
LedgerLine(hexdigest, rest) == [hexdigest |-> hexdigest, rest |-> rest]

\* line.split()
SplitLine(line) == <<line.hexdigest>> \o split(line.rest)

\* Methods that write the ledger draw salts, so they return the set of
\* worlds they can end in.  Then(Ws, F) continues every world of Ws that
\* raised nothing with F.
Then(Ws, F(_)) == UNION {IF W.exc = None THEN F(W) ELSE {W} : W \in Ws}

\* str(True), str(False)
StrBool(b) == IF b THEN "True" ELSE "False"

\* time.time(): the clock is read and has moved on by the next reading
time(W) == Return([W EXCEPT !.now = @ + 1], W.now)

\* LedgerServer._ledger_write(*args, t=None).  args are given printed the
\* way its list comprehension prints them (StrNum for numbers, str()
\* otherwise); t is <<>> for None and <<timestamp>> otherwise.
_ledger_write(W, args, t) ==
  LET W1 == IF t = <<>> THEN time(W) ELSE Return(W, t[1])
      elems == <<StrFloat(W1.ret)>> \o args
  IN {Return([W1 EXCEPT
        !.ledger = Append(@, LedgerLine(sh[2], join(<<sh[1]>> \o elems))),
        !.server.last_hash = sh[2]], W1.ret) :
      sh \in generate_salt_and_hash(W1.server.last_hash, elems, W1.server.leading_zero_count)}

----------------------------------------------------------------------------
(* class LedgerServer: every operation is the in-memory one followed by    *)
(* a ledger write.                                                         *)

LedgerServer_open_account(W, id, account_uuid) ==
  LET W1 == InMemoryServer_open_account(W, id, account_uuid)
  IN IF W1.exc # None THEN {W1}
     ELSE {Return(W2, account_uuid) : W2 \in _ledger_write(W1, <<"open", IdStr(id), account_uuid>>, <<>>)}

LedgerServer_add_account_alias(W, account, alias_id) ==
  LET W1 == InMemoryServer_add_account_alias(W, account, alias_id)
  IN {Return(W2, None) :
        W2 \in _ledger_write(W1, <<"add-alias", IdStr(get_account_id(W1, account)), IdStr(alias_id)>>, <<>>)}

\* base64.b64encode(text.encode('utf-8')).decode('utf-8'), as a tagged text
b64encode(text) == "b64." \o text

\* base64.b64decode(text): the text back, or an error for what is no base64
b64decode(text) ==
  IF startswith(text, "b64.") THEN [ok |-> TRUE, val |-> SubSeq(text, 5, Len(text))]
  ELSE [ok |-> FALSE, val |-> ""]

\* key.export_key(format='PEM') of the public key named key
export_key(key) == "pem." \o key

\* ECC.import_key(text): the key, or a ValueError for what is no PEM text
import_key(text) ==
  IF startswith(text, "pem.") THEN [ok |-> TRUE, val |-> SubSeq(text, 5, Len(text))]
  ELSE [ok |-> FALSE, val |-> ""]

LedgerServer_add_public_key(W, account, key) ==
  LET W1 == InMemoryServer_add_public_key(W, account, key)
  IN {Return(W2, None) :
        W2 \in _ledger_write(W1, <<"add-public-key", IdStr(get_account_id(W1, account)),
                                   b64encode(export_key(key))>>, <<>>)}

LedgerServer_mark_public(W, author, account, new_public) ==
  LET W1 == InMemoryServer_mark_public(W, author, account, new_public)
  IN {Return(W2, None) :
        W2 \in _ledger_write(W1, <<"mark-public", IdStr(author), IdStr(get_account_id(W1, account)),
                                   StrBool(new_public)>>, <<>>)}

LedgerServer_authorize(W, author, account, auth_level) ==
  LET W1 == InMemoryServer_authorize(W, author, account, auth_level)
  IN {Return(W2, None) :
        W2 \in _ledger_write(W1, <<"authorize", IdStr(author), IdStr(get_account_id(W1, account)),
                                   auth_level>>, <<>>)}

LedgerServer_set_frozen(W, author, account, frozen) ==
  LET W1 == InMemoryServer_set_frozen(W, author, account, frozen)
  IN {Return(W2, None) :
        W2 \in _ledger_write(W1, <<"set-frozen", IdStr(author), IdStr(get_account_id(W1, account)),
                                   StrBool(frozen)>>, <<>>)}

LedgerServer_add_proxy(W, author, account, proxied_account) ==
  LET W1 == InMemoryServer_add_proxy(W, author, account, proxied_account)
  IN {Return(W2, None) :
        W2 \in _ledger_write(W1, <<"add-proxy", IdStr(author), IdStr(get_account_id(W1, account)),
                                   IdStr(get_account_id(W1, proxied_account))>>, <<>>)}

LedgerServer_remove_proxy(W, author, account, proxied_account) ==
  LET W1 == InMemoryServer_remove_proxy(W, author, account, proxied_account)
  IN {Return(W2, W1.ret) :
        W2 \in _ledger_write(W1, <<"remove-proxy", IdStr(author), IdStr(get_account_id(W1, account)),
                                   IdStr(get_account_id(W1, proxied_account))>>, <<>>)}

LedgerServer_delete_account(W, author, account) ==
  LET W1 == InMemoryServer_delete_account(W, author, account)
  IN IF W1.exc # None THEN {W1}
     ELSE {Return(W2, W1.ret) :
             W2 \in _ledger_write(W1, <<"delete-account", IdStr(author), IdStr(account)>>, <<>>)}

LedgerServer_print_money(W, author, account, amount) ==
  LET W1 == InMemoryServer_print_money(W, author, account, amount)
  IN {Return(W2, None) :
        W2 \in _ledger_write(W1, <<"print-money", IdStr(author), IdStr(get_account_id(W1, account)),
                                   StrNum(amount)>>, <<>>)}

\* author is an AccountId here; get_account_id hands it back as it is
LedgerServer_remove_funds(W, author, account, amount) ==
  LET W1 == InMemoryServer_remove_funds(W, author, account, amount)
  IN {Return(W2, None) :
        W2 \in _ledger_write(W1, <<"remove-funds", IdStr(author), IdStr(get_account_id(W1, account)),
                                   StrNum(amount)>>, <<>>)}

\* a transfer that is written to the ledger before it is tried
transfer_logged_before_checked(W, author, source, destination, amount) ==
  Then(_ledger_write(W, <<"transfer", IdStr(author), IdStr(get_account_id(W, source)),
                          IdStr(get_account_id(W, destination)), StrNum(amount)>>, <<>>),
       LAMBDA W1 : {InMemoryServer_transfer(W1, author, source, destination, amount)})

LedgerServer_transfer(W, author, source, destination, amount) ==
  LET W1 == InMemoryServer_transfer(W, author, source, destination, amount)
  IN IF W1.exc # None THEN {W1}
     ELSE {Return(W2, None) :
             W2 \in _ledger_write(W1, <<"transfer", IdStr(author), IdStr(get_account_id(W1, source)),
                                        IdStr(get_account_id(W1, destination)), StrNum(amount)>>, <<>>)}

LedgerServer_create_recurring_transfer(W, author, source, destination, total_amount, tick_count, transfer_id) ==
  LET W1 == InMemoryServer_create_recurring_transfer(W, author, source, destination, total_amount,
                                                     tick_count, transfer_id)
  IN {Return(W2, W1.ret) :
        W2 \in _ledger_write(W1, <<"create-recurring-transfer", IdStr(author),
                                   IdStr(get_account_id(W1, source)),
                                   IdStr(get_account_id(W1, destination)),
                                   StrNum(total_amount), ToString(tick_count), transfer_id>>, <<>>)}

LedgerServer_perform_recurring_transfer(W, transfer, amount) ==
  LET W1 == InMemoryServer_perform_recurring_transfer(W, transfer, amount)
  IN IF W1.exc # None THEN {W1}
     ELSE {Return(W2, None) :
             W2 \in _ledger_write(W1, <<"perform-recurring-transfer", transfer.id, StrNum(amount)>>, <<>>)}

\* self.perform_recurring_transfer(...) and self.server.transfer(...): the
\* method of the object's class
perform_recurring_transfer(W, transfer, amount) ==
  IF W.server.cls = "LedgerServer" THEN LedgerServer_perform_recurring_transfer(W, transfer, amount)
  ELSE {InMemoryServer_perform_recurring_transfer(W, transfer, amount)}

transfer(W, author, source, destination, amount) ==
  IF W.server.cls = "LedgerServer" THEN LedgerServer_transfer(W, author, source, destination, amount)
  ELSE {InMemoryServer_transfer(W, author, source, destination, amount)}

----------------------------------------------------------------------------
(* Ticks and recurring transfers.                                          *)

\* the for loop of InMemoryServer.notify_tick_elapsed from the i-th
\* registered transfer on, then the deletion of the finished transfers
\* a scheduler that writes a skipped installment off: the installment that
\* cannot be paid is taken from the remaining amount all the same
RECURSIVE TickLoop_losing_skipped(_, _, _)
TickLoop_losing_skipped(W, i, finished_transfers) ==
  IF W.exc # None THEN {W}
  ELSE IF i > Len(W.server.recurring_transfers)
    THEN {Return([W EXCEPT !.server.recurring_transfers =
                    SelectSeq(@, LAMBDA r : r.id \notin finished_transfers)], None)}
  ELSE
    LET t == W.server.recurring_transfers[i]
        per_tick == NumDivInt(t.total_amount, t.tick_count)
        lost == [W EXCEPT !.server.recurring_transfers[i].remaining_amount = NumSub(@, per_tick)]
    IN IF NumLe(t.remaining_amount, Zero)
         THEN TickLoop_losing_skipped(W, i + 1, finished_transfers \cup {t.id})
       ELSE IF can_transfer(W, t.source, t.destination, per_tick)
         THEN UNION {TickLoop_losing_skipped(W2, i + 1, finished_transfers) :
                       W2 \in perform_recurring_transfer(W, t, per_tick)}
         ELSE TickLoop_losing_skipped(lost, i + 1, finished_transfers)

RECURSIVE TickLoop(_, _, _)
TickLoop(W, i, finished_transfers) ==
  IF W.exc # None THEN {W}
  ELSE IF i > Len(W.server.recurring_transfers)
    THEN {Return([W EXCEPT !.server.recurring_transfers =
                    SelectSeq(@, LAMBDA r : r.id \notin finished_transfers)], None)}
  ELSE
    LET t == W.server.recurring_transfers[i]
    IN IF t.tick_count = 0 THEN {Raise(W, "ZeroDivisionError")}
       ELSE
         LET per_tick == NumDivInt(t.total_amount, t.tick_count)
         IN IF NumLe(t.remaining_amount, Zero)
              THEN TickLoop(W, i + 1, finished_transfers \cup {t.id})
            ELSE IF NumLe(per_tick, t.remaining_amount)
              THEN IF can_transfer(W, t.source, t.destination, per_tick)
                     THEN UNION {TickLoop(W2, i + 1, finished_transfers) :
                                   W2 \in perform_recurring_transfer(W, t, per_tick)}
                     ELSE TickLoop(W, i + 1, finished_transfers)
            ELSE
              LET remaining == t.total_amount
              IN IF can_transfer(W, t.source, t.destination, remaining)
                   THEN UNION {TickLoop(W2, i + 1, finished_transfers \cup {t.id}) :
                                 W2 \in perform_recurring_transfer(W, t, remaining)}
                   ELSE TickLoop(W, i + 1, finished_transfers)

InMemoryServer_notify_tick_elapsed(W, tick_timestamp) == TickLoop(W, 1, {})

----------------------------------------------------------------------------
(* class WealthTaxBracket, class TaxMan.                                   *)

\* TaxMan's default tax_regularity
tax_regularity == 28

\* end is <<>> for None and <<amount>> otherwise
WealthTaxBracket(start, end, rate) ==
  [start |-> start, end |-> end, tax_rate |-> rate, exempt_prefixes |-> <<"&", "@">>]

\* a get_tax that forgets the upper bound of the bracket
get_tax_uncapped(bracket, bal) ==
  IF NumLt(bal, bracket.start) THEN Zero
  ELSE Round(NumMul(NumDivInt(NumSub(bal, bracket.start), 100), bracket.tax_rate))

get_tax(bracket, bal) ==
  IF NumLt(bal, bracket.start) THEN Zero
  ELSE IF bracket.end = <<>> \/ NumLe(bal, bracket.end[1])
    THEN Round(NumMul(NumDivInt(NumSub(bal, bracket.start), 100), bracket.tax_rate))
    ELSE Round(NumMul(NumDivInt(NumSub(bracket.end[1], bracket.start), 100), bracket.tax_rate))

TaxMan(regularity, auto_tax) ==
  [tax_brackets |-> <<>>, ticks_till_tax |-> regularity, ticks_till_tax_tmp |-> regularity,
   autoTax |-> auto_tax]

TaxMan_add_tax_bracket(W, min_amount, max_amount, rate, name) ==
  Return([W EXCEPT !.server.taxObject.tax_brackets =
            (name :> WealthTaxBracket(min_amount, max_amount, rate)) @@ @], None)

TaxMan_remove_tax_bracket(W, name) ==
  IF name \in DOMAIN W.server.taxObject.tax_brackets
    THEN Return([W EXCEPT !.server.taxObject.tax_brackets =
                   [k \in (DOMAIN @) \ {name} |-> @[k]]], None)
    ELSE Raise(W, "TaxException")

TaxMan_toggle_auto_tax(W) ==
  Return([W EXCEPT !.server.taxObject.autoTax = ~@], ~W.server.taxObject.autoTax)

\* str(get_account_id(account)).startswith(tuple(bracket.exempt_prefixes))
IsExempt(W, account, bracket) ==
  \E i \in 1..Len(bracket.exempt_prefixes) :
    startswith(IdStr(get_account_id(W, account)), bracket.exempt_prefixes[i])

RECURSIVE SumTax(_, _, _)
SumTax(W, account, names) ==
  IF names = {} THEN Zero
  ELSE LET name == CHOOSE k \in names : TRUE
           bracket == W.server.taxObject.tax_brackets[name]
       IN NumAdd(IF IsExempt(W, account, bracket) THEN Zero
                 ELSE get_tax(bracket, get_balance(W, account)),
                 SumTax(W, account, names \ {name}))

get_account_tax(W, account) == SumTax(W, account, DOMAIN W.server.taxObject.tax_brackets)

RECURSIVE SetToSeq(_)
SetToSeq(S) ==
  IF S = {} THEN <<>>
  ELSE LET x == CHOOSE y \in S : TRUE IN <<x>> \o SetToSeq(S \ {x})

\* sorted(unique_accounts, key=lambda account: str(self.get_account_id(account)))
list_accounts(W) ==
  SortSeq(SetToSeq(get_accounts(W)),
          LAMBDA x, y : StrLess(IdStr(get_account_id(W, x)), IdStr(get_account_id(W, y))))

\* the for loop of TaxMan.tax over the accounts listed when it started
RECURSIVE TaxLoop(_, _, _)
TaxLoop(W, accounts, i) ==
  IF W.exc # None THEN {W}
  ELSE IF i > Len(accounts) THEN {Return(W, None)}
  ELSE
    LET amount_due == get_account_tax(W, accounts[i])
    IN IF amount_due.n # 0
         THEN UNION {TaxLoop(W2, accounts, i + 1) :
                       W2 \in transfer(W, <<"@government">>, accounts[i], W.server.gov_account, amount_due)}
         ELSE TaxLoop(W, accounts, i + 1)

TaxMan_tax(W) ==
  LET W1 == [W EXCEPT !.server.taxObject.ticks_till_tax_tmp = W.server.taxObject.ticks_till_tax]
  IN TaxLoop(W1, list_accounts(W1), 1)

\* a tick that counts down and collects whether auto-tax is on or off
TaxMan_tick_ignoring_switch(W, from_ledger) ==
  LET W1 == [W EXCEPT !.server.taxObject.ticks_till_tax_tmp = @ - 1]
  IN IF W1.server.taxObject.ticks_till_tax_tmp <= 0
       THEN LET W2 == [W1 EXCEPT !.server.taxObject.ticks_till_tax_tmp =
                                    W1.server.taxObject.ticks_till_tax]
            IN IF from_ledger THEN {Return(W2, None)} ELSE TaxMan_tax(W2)
       ELSE {Return(W1, None)}

TaxMan_tick(W, from_ledger) ==
  IF ~W.server.taxObject.autoTax THEN {Return(W, None)}
  ELSE
    LET W1 == [W EXCEPT !.server.taxObject.ticks_till_tax_tmp = @ - 1]
    IN IF W1.server.taxObject.ticks_till_tax_tmp <= 0
         THEN LET W2 == [W1 EXCEPT !.server.taxObject.ticks_till_tax_tmp =
                                      W1.server.taxObject.ticks_till_tax]
              IN IF from_ledger THEN {Return(W2, None)} ELSE TaxMan_tax(W2)
         ELSE {Return(W1, None)}

----------------------------------------------------------------------------
(* class LedgerServer: ticks and taxes.                                    *)

\* str(x) of a bracket bound or rate: '5' for 5 and for Fraction(5), '1/2'
\* for Fraction(1, 2), 'None' for None
StrOf(x) ==
  IF x = <<>> THEN "None"
  ELSE IF x[1].d = 1 THEN ToString(x[1].n)
  ELSE ToString(x[1].n) \o "/" \o ToString(x[1].d)

LedgerServer_add_tax_bracket(W, author, start, end, rate, name) ==
  _ledger_write(TaxMan_add_tax_bracket(W, start, end, rate, name),
                <<"add-tax-bracket", IdStr(author), StrOf(<<start>>), StrOf(end), StrOf(<<rate>>), name>>,
                <<>>)

LedgerServer_remove_tax_bracket(W, author, name) ==
  LET W1 == TaxMan_remove_tax_bracket(W, name)
  IN IF W1.exc # None THEN {W1}
     ELSE _ledger_write(W1, <<"remove-tax-bracket", IdStr(author), name>>, <<>>)

LedgerServer_force_tax(W, author) ==
  Then(TaxMan_tax(W), LAMBDA W1 : _ledger_write(W1, <<"force-tax", IdStr(author)>>, <<>>))

LedgerServer_toggle_auto_tax(W, author) ==
  LET W1 == TaxMan_toggle_auto_tax(W)
  IN {Return(W2, W1.ret) : W2 \in _ledger_write(W1, <<"toggle-auto-tax", IdStr(author)>>, <<>>)}

LedgerServer_add_exempt_prefix(W, author, prefix, tax_group) ==
  IF tax_group \notin DOMAIN W.server.taxObject.tax_brackets THEN {Raise(W, "KeyError")}
  ELSE _ledger_write(W, <<"add-exempt-prefix">>, <<>>)

\* a notify_tick_elapsed that appends its tick entry before it carries out
\* the installments and the taxation of the tick
notify_tick_elapsed_logged_first(W, tick_timestamp) ==
  Then(Then({Return([W3 EXCEPT !.server.last_tick_timestamp = W3.ret], None) :
               W3 \in _ledger_write(W, <<"tick">>, tick_timestamp)},
            LAMBDA W1 : InMemoryServer_notify_tick_elapsed(W1, <<>>)),
       LAMBDA W2 : TaxMan_tick(W2, FALSE))

LedgerServer_notify_tick_elapsed(W, tick_timestamp) ==
  Then(Then(InMemoryServer_notify_tick_elapsed(W, <<>>),
            LAMBDA W1 : TaxMan_tick(W1, FALSE)),
       LAMBDA W2 : {Return([W3 EXCEPT !.server.last_tick_timestamp = W3.ret], None) :
                      W3 \in _ledger_write(W2, <<"tick">>, tick_timestamp)})

----------------------------------------------------------------------------
(* class LedgerServer: loading.  Replay calls the InMemoryServer methods   *)
(* (super()), so it writes nothing and draws nothing.                      *)

\* the entry's account arguments, elems[i] for i in places, all name accounts
AccountsExist(W, elems, places) ==
  \A i \in places : i <= Len(elems) /\ has_account(W, parse_account_id(elems[i]))

\* the dispatch of _read_ledger on one entry: elems is the line without
\* digest, salt and timestamp, so elems[1] is the command (Python's elems[0])
ReplayEntry(W, timestamp, elems) ==
  LET cmd == elems[1]
      Arg(i) == elems[i + 1]
      Account(i) == get_account_from_string(W, Arg(i))
      Has(n, accts) == Len(elems) > n /\ AccountsExist(W, elems, {i + 1 : i \in accts})
  IN
  IF cmd = "open" THEN
    IF Len(elems) < 3 THEN Raise(W, "IndexError")
    ELSE InMemoryServer_open_account(W, <<Arg(1)>>, Arg(2))
  ELSE IF cmd = "transfer" THEN
    IF ~Has(4, {2, 3}) THEN Raise(W, "KeyError")
    ELSE IF ~ParseFraction(Arg(4)).ok THEN Raise(W, "ValueError")
    ELSE InMemoryServer_transfer(W, parse_account_id(Arg(1)), Account(2), Account(3),
                                 ParseFraction(Arg(4)).val)
  ELSE IF cmd = "authorize" THEN
    IF ~Has(3, {2}) \/ Arg(3) \notin AuthNames THEN Raise(W, "KeyError")
    ELSE InMemoryServer_authorize(W, parse_account_id(Arg(1)), Account(2), Arg(3))
  ELSE IF cmd = "set-frozen" THEN
    IF ~Has(3, {2}) THEN Raise(W, "KeyError")
    ELSE InMemoryServer_set_frozen(W, parse_account_id(Arg(1)), Account(2), Arg(3) = "True")
  ELSE IF cmd = "print-money" THEN
    IF ~Has(3, {2}) THEN Raise(W, "KeyError")
    ELSE IF ~ParseFraction(Arg(3)).ok THEN Raise(W, "ValueError")
    ELSE InMemoryServer_print_money(W, parse_account_id(Arg(1)), Account(2), ParseFraction(Arg(3)).val)
  ELSE IF cmd = "remove-funds" THEN
    IF ~Has(3, {1, 2}) THEN Raise(W, "KeyError")
    ELSE IF ~ParseFraction(Arg(3)).ok THEN Raise(W, "ValueError")
    ELSE InMemoryServer_remove_funds(W, Account(1), Account(2), ParseFraction(Arg(3)).val)
  ELSE IF cmd = "perform-recurring-transfer" THEN
    IF Len(elems) < 3 \/ TransferIndex(W, Arg(1)) = 0 THEN Raise(W, "KeyError")
    ELSE IF ~ParseFraction(Arg(2)).ok THEN Raise(W, "ValueError")
    ELSE InMemoryServer_perform_recurring_transfer(
           W, W.server.recurring_transfers[TransferIndex(W, Arg(1))], ParseFraction(Arg(2)).val)
  ELSE IF cmd = "create-recurring-transfer" THEN
    IF ~Has(6, {2, 3}) THEN Raise(W, "KeyError")
    ELSE IF ~ParseFraction(Arg(4)).ok \/ ~ParseInt(Arg(5)).ok THEN Raise(W, "ValueError")
    ELSE InMemoryServer_create_recurring_transfer(
           W, parse_account_id(Arg(1)), Account(2), Account(3),
           ParseFraction(Arg(4)).val, ParseInt(Arg(5)).val, Arg(6))
  ELSE IF cmd = "add-public-key" THEN
    IF Len(elems) < 3 THEN Raise(W, "IndexError")
    ELSE IF ~b64decode(Arg(2)).ok THEN Raise(W, "binascii.Error")
    ELSE IF ~Has(2, {1}) THEN Raise(W, "KeyError")
    ELSE IF ~import_key(b64decode(Arg(2)).val).ok THEN Raise(W, "ValueError")
    ELSE InMemoryServer_add_public_key(W, Account(1), import_key(b64decode(Arg(2)).val).val)
  ELSE IF cmd = "add-proxy" THEN
    IF ~Has(3, {2, 3}) THEN Raise(W, "KeyError")
    ELSE InMemoryServer_add_proxy(W, parse_account_id(Arg(1)), Account(2), Account(3))
  ELSE IF cmd = "remove-proxy" THEN
    IF ~Has(3, {2, 3}) THEN Raise(W, "KeyError")
    ELSE InMemoryServer_remove_proxy(W, parse_account_id(Arg(1)), Account(2), Account(3))
  ELSE IF cmd = "add-alias" THEN
    IF ~Has(2, {1}) THEN Raise(W, "KeyError")
    ELSE InMemoryServer_add_account_alias(W, Account(1), parse_account_id(Arg(2)))
  ELSE IF cmd = "tick" THEN
    CHOOSE W2 \in TaxMan_tick([W EXCEPT !.server.last_tick_timestamp = timestamp], TRUE) : TRUE
  ELSE IF cmd = "delete-account" THEN
    \* super().delete_account(elems[2]): one argument for (author, id)
    IF Len(elems) < 3 THEN Raise(W, "IndexError") ELSE Raise(W, "TypeError")
  ELSE IF cmd = "add-tax-bracket" THEN
    IF Len(elems) < 6 THEN Raise(W, "IndexError")
    ELSE IF ~ParseInt(Arg(2)).ok \/ (Arg(3) # "None" /\ ~ParseInt(Arg(3)).ok) \/ ~ParseInt(Arg(4)).ok
      THEN Raise(W, "ValueError")
    ELSE TaxMan_add_tax_bracket(
           W, PyInt(ParseInt(Arg(2)).val),
           IF Arg(3) # "None" THEN <<PyInt(ParseInt(Arg(3)).val)>> ELSE <<>>,
           PyInt(ParseInt(Arg(4)).val), Arg(5))
  ELSE IF cmd = "remove-tax-bracket" THEN
    IF Len(elems) < 3 THEN Raise(W, "IndexError") ELSE TaxMan_remove_tax_bracket(W, Arg(2))
  ELSE IF cmd = "toggle-auto-tax" THEN TaxMan_toggle_auto_tax(W)
  ELSE IF cmd = "force-tax" THEN W
  ELSE IF cmd = "mark-public" THEN
    IF ~Has(3, {2}) THEN Raise(W, "KeyError")
    ELSE InMemoryServer_mark_public(W, parse_account_id(Arg(1)), Account(2), Arg(3) = "True")
  ELSE Raise(W, "Unknown ledger command")

\* a loader that replays every line without looking at its digest
ReadLine_unverified(W, line) ==
  LET elems == SplitLine(line)
      W1 == [W EXCEPT !.server.last_hash = elems[1]]
  IN IF Len(elems) < 3 THEN Raise(W1, "IndexError")
     ELSE IF ~ParseFloat(elems[3]).ok THEN Raise(W1, "ValueError")
     ELSE IF Len(elems) < 4 THEN Raise(W1, "IndexError")
     ELSE ReplayEntry(W1, ParseFloat(elems[3]).val, SubSeq(elems, 4, Len(elems)))

\* a loader that replays 'open' without the uuid the entry records, so that
\* the account draws a new one, and replays the other entries as they are
ReadLine_forgetting_uuid(W, line) ==
  LET elems == SplitLine(line)
      hash_value == elems[1]
      expected_hash == compute_hash(W.server.last_hash, Tail(elems))
      W1 == [W EXCEPT !.server.last_hash = expected_hash]
  IN IF expected_hash # hash_value THEN Raise(W, "ledger hash value does not match expected hash value")
     ELSE IF ~has_leading_zeros(hash_value, W.server.leading_zero_count)
       THEN Raise(W, "hash value does not have enough leading zeros")
     ELSE IF Len(elems) < 6 \/ ~ParseFloat(elems[3]).ok THEN Raise(W1, "IndexError")
     ELSE IF elems[4] = "open"
       THEN InMemoryServer_open_account(W1, <<elems[5]>>, "uuid" \o ToString(W.now))
     ELSE ReplayEntry(W1, ParseFloat(elems[3]).val, SubSeq(elems, 4, Len(elems)))

\* a loader that passes over the entries whose command it does not know
ReadLine_skipping_unknown(W, line) ==
  LET elems == SplitLine(line)
      hash_value == elems[1]
      expected_hash == compute_hash(W.server.last_hash, Tail(elems))
      W1 == [W EXCEPT !.server.last_hash = expected_hash]
  IN IF expected_hash # hash_value THEN Raise(W, "ledger hash value does not match expected hash value")
     ELSE IF ~has_leading_zeros(hash_value, W.server.leading_zero_count)
       THEN Raise(W, "hash value does not have enough leading zeros")
     ELSE IF Len(elems) < 4 \/ ~ParseFloat(elems[3]).ok THEN Raise(W1, "IndexError")
     ELSE IF ReplayEntry(W1, ParseFloat(elems[3]).val, SubSeq(elems, 4, Len(elems))).exc = "Unknown ledger command"
       THEN W1
     ELSE ReplayEntry(W1, ParseFloat(elems[3]).val, SubSeq(elems, 4, Len(elems)))

\* the body of the for loop of _read_ledger for one line
ReadLine(W, line) ==
  LET elems == SplitLine(line)
      hash_value == elems[1]
      expected_hash == compute_hash(W.server.last_hash, Tail(elems))
  IN IF expected_hash # hash_value THEN Raise(W, "ledger hash value does not match expected hash value")
     ELSE IF ~has_leading_zeros(hash_value, W.server.leading_zero_count)
       THEN Raise(W, "hash value does not have enough leading zeros")
     ELSE
       LET W1 == [W EXCEPT !.server.last_hash = expected_hash]
       IN IF Len(elems) < 3 THEN Raise(W1, "IndexError")
          ELSE IF ~ParseFloat(elems[3]).ok THEN Raise(W1, "ValueError")
          ELSE IF Len(elems) < 4 THEN Raise(W1, "IndexError")
          ELSE ReplayEntry(W1, ParseFloat(elems[3]).val, SubSeq(elems, 4, Len(elems)))

RECURSIVE ReadLines(_, _, _)
ReadLines(W, lines, i) ==
  IF W.exc # None \/ i > Len(lines) THEN W
  ELSE ReadLines(ReadLine(W, lines[i]), lines, i + 1)

_read_ledger(W) == ReadLines(W, W.ledger, 1)

\* LedgerServer.__init__(ledger_path, leading_zero_count); uuid4 is the uuid
\* the government account draws
LedgerServer_init(W, leading_zero_count, uuid4) ==
  LET W1 == InMemoryServer_init([W EXCEPT !.server = [cls |-> "LedgerServer"]], uuid4)
      W2 == time(W1)
      W3 == [W2 EXCEPT !.server = [taxObject |-> TaxMan(tax_regularity, FALSE),
                                   last_tick_timestamp |-> W2.ret,
                                   last_hash |-> EmptyHash,
                                   leading_zero_count |-> leading_zero_count] @@ @]
  IN Return(_read_ledger(W3), None)

----------------------------------------------------------------------------
(* The inputs the model draws.                                             *)

\* the identities accounts are opened under
Names == {<<"a">>, <<"b">>}

Government == <<"@government">>

\* the values uuid4 gives opened accounts and the government account
AccountUUIDs == {"u1", "u2"}
GovernmentUUIDs == {"g1", "g2"}

\* amounts callers pass: Fractions, some of them not positive
PositiveAmounts == {Fraction(1, 1), Fraction(2, 1)}
Amounts == PositiveAmounts \cup {Fraction(0, 1)}

\* the id of the watched recurring transfer
TransferIds == {"t1"}

TickCounts == 1..MaxTicks

\* the accounts that are open, by identity
OpenNames == {id \in Names \cup {Government} : IdStr(id) \in DOMAIN server.accounts}

\* those of them that are not the government's
OpenCitizens == OpenNames \ {Government}

TheWorld == World(server, ledger, now)

\* the sum of all balances of the accounts the server holds
RECURSIVE SumBalances(_, _)
SumBalances(s, accounts) ==
  IF accounts = {} THEN Zero
  ELSE LET x == CHOOSE y \in accounts : TRUE
       IN NumAdd(s.objs[x].balance, SumBalances(s, accounts \ {x}))

TotalMoney(s) == SumBalances(s, {s.accounts[k] : k \in DOMAIN s.accounts})

NoHistory == [watching |-> FALSE]

\* the server carries on from world W, having made the call described by call
Becomes(W, call) ==
  /\ server' = W.server
  /\ ledger' = W.ledger
  /\ now' = W.now
  /\ last' = [call EXCEPT !.exc = W.exc]

----------------------------------------------------------------------------
(* An InMemoryServer and its callers.                                      *)

InitMem ==
  /\ \E uuid4 \in GovernmentUUIDs :
       server = InMemoryServer_init(World([cls |-> "InMemoryServer"], <<>>, 0), uuid4).server
  /\ ledger = <<>>
  /\ now = 0
  /\ last = [op |-> "__init__", exc |-> None]
  /\ hist = NoHistory

\* any call but a tick or create_recurring_transfer ends the watch
Unwatch == hist' = NoHistory

MemOpenAccount ==
  \E id \in Names, uuid4 \in AccountUUIDs \ DOMAIN server.objs :
    /\ Becomes(InMemoryServer_open_account(TheWorld, id, uuid4),
               [op |-> "open_account", id |-> id, exc |-> None])
    /\ Unwatch

MemPrintMoney ==
  \E id \in OpenCitizens, amount \in PositiveAmounts :
    /\ NumLe(NumAdd(TotalMoney(server), amount), PyInt(MaxMoney))
    /\ Becomes(InMemoryServer_print_money(TheWorld, Government, get_account(TheWorld, id), amount),
               [op |-> "print_money", account |-> get_account(TheWorld, id), amount |-> amount, exc |-> None])
    /\ Unwatch

MemRemoveFunds ==
  \E id \in OpenCitizens, amount \in PositiveAmounts :
    /\ NumLe(PyInt(0 - MaxDebt), NumSub(get_balance(TheWorld, get_account(TheWorld, id)), amount))
    /\ Becomes(InMemoryServer_remove_funds(TheWorld, Government, get_account(TheWorld, id), amount),
               [op |-> "remove_funds", account |-> get_account(TheWorld, id), amount |-> amount, exc |-> None])
    /\ Unwatch

MemTransfer ==
  \E src \in OpenCitizens, dst \in OpenCitizens, amount \in Amounts :
    /\ Becomes(InMemoryServer_transfer(TheWorld, src, get_account(TheWorld, src),
                                       get_account(TheWorld, dst), amount),
               [op |-> "transfer", source |-> get_account(TheWorld, src),
                destination |-> get_account(TheWorld, dst), amount |-> amount, exc |-> None])
    /\ Unwatch

MemSetFrozen ==
  \E id \in OpenCitizens, frozen \in BOOLEAN :
    /\ Becomes(InMemoryServer_set_frozen(TheWorld, Government, get_account(TheWorld, id), frozen),
               [op |-> "set_frozen", account |-> get_account(TheWorld, id), frozen |-> frozen, exc |-> None])
    /\ Unwatch

MemCreateRecurringTransfer ==
  \E src \in OpenCitizens, dst \in OpenCitizens, per_tick \in PositiveAmounts,
     tick_count \in TickCounts, transfer_id \in TransferIds :
    LET source == get_account(TheWorld, src)
        destination == get_account(TheWorld, dst)
        total_amount == NumMul(per_tick, PyInt(tick_count))
    IN /\ Becomes(InMemoryServer_create_recurring_transfer(TheWorld, src, source, destination,
                                                          total_amount, tick_count, transfer_id),
                  [op |-> "create_recurring_transfer", id |-> transfer_id, exc |-> None])
       /\ hist' = [watching |-> TRUE, id |-> transfer_id, ticks |-> 0, per_tick |-> per_tick,
                   tick_count |-> tick_count, source |-> source, destination |-> destination,
                   source_balance |-> get_balance(TheWorld, source),
                   destination_balance |-> get_balance(TheWorld, destination),
                   frozen |-> is_frozen(TheWorld, source) \/ is_frozen(TheWorld, destination)]

MemTick ==
  \E W \in InMemoryServer_notify_tick_elapsed(TheWorld, <<>>) :
    /\ Becomes(W, [op |-> "notify_tick_elapsed", exc |-> None])
    /\ hist' = IF hist.watching /\ hist.ticks <= hist.tick_count
                 THEN [hist EXCEPT !.ticks = @ + 1]
                 ELSE NoHistory

NextMem ==
  \/ MemOpenAccount
  \/ MemPrintMoney
  \/ MemRemoveFunds
  \/ MemTransfer
  \/ MemSetFrozen

SpecMem == InitMem /\ [][NextMem]_vars

----------------------------------------------------------------------------
(* An InMemoryServer with two funded accounts, recurring transfers between *)
(* them and the ticks that carry them out.                                 *)

\* a server on which accounts a and b were opened and given x and y
Funded(uuid4, uuid_a, uuid_b, x, y) ==
  LET W0 == InMemoryServer_init(World([cls |-> "InMemoryServer"], <<>>, 0), uuid4)
      W1 == InMemoryServer_open_account(W0, <<"a">>, uuid_a)
      W2 == InMemoryServer_open_account(W1, <<"b">>, uuid_b)
      W3 == IF x > 0 THEN InMemoryServer_print_money(W2, Government, uuid_a, Fraction(x, 1)) ELSE W2
      W4 == IF y > 0 THEN InMemoryServer_print_money(W3, Government, uuid_b, Fraction(y, 1)) ELSE W3
  IN W4.server

InitRecurring ==
  /\ \E x \in 0..MaxMoney, y \in 0..MaxMoney :
       /\ x + y <= MaxMoney
       /\ server = Funded("g1", "u1", "u2", x, y)
  /\ ledger = <<>>
  /\ now = 0
  /\ last = [op |-> "print_money", exc |-> None]
  /\ hist = NoHistory

NextRecurring ==
  \/ MemCreateRecurringTransfer
  \/ MemTick
  \/ MemTransfer
  \/ MemSetFrozen

SpecRecurring == InitRecurring /\ [][NextRecurring]_vars

----------------------------------------------------------------------------
(* The scheduler of recurring transfers under disturbance: a recurring     *)
(* transfer of any total the server accepts, ticks, and the freezes and    *)
(* transfers that make an installment impossible.                          *)

\* the totals callers pass to create_recurring_transfer; nothing in it
\* rejects a total that is not positive
TotalAmounts == {Fraction(0 - 1, 1), Fraction(1, 1), Fraction(2, 1)}

\* the balance of the account with this uuid
BalanceOf(s, uuid) == s.objs[uuid].balance

\* the registered recurring transfer with this id
TransferOf(s, id) == s.recurring_transfers[TransferIndex(World(s, <<>>, 0), id)]

SchedCreateRecurringTransfer ==
  \E src \in OpenCitizens, dst \in OpenCitizens, total_amount \in TotalAmounts,
     tick_count \in TickCounts, transfer_id \in TransferIds :
    LET source == get_account(TheWorld, src)
        destination == get_account(TheWorld, dst)
    IN /\ src # dst
       /\ Becomes(InMemoryServer_create_recurring_transfer(TheWorld, src, source, destination,
                                                          total_amount, tick_count, transfer_id),
                  [op |-> "create_recurring_transfer", id |-> transfer_id, exc |-> None])
       /\ hist' = [watching |-> TRUE, id |-> transfer_id, ticks |-> 0, skipped |-> 0,
                   total_amount |-> total_amount, tick_count |-> tick_count,
                   per_tick |-> NumDivInt(total_amount, tick_count),
                   delivered |-> Zero, source |-> source, destination |-> destination]

\* a tick; while the watched transfer is registered the watch counts the
\* tick, adds what it moved to the destination and counts it as skipped when
\* the transfer was due and nothing moved
SchedTick ==
  /\ hist.watching => hist.ticks < MaxWatch
  /\ \E W \in InMemoryServer_notify_tick_elapsed(TheWorld, <<>>) :
       /\ Becomes(W, [op |-> "notify_tick_elapsed", exc |-> None])
       /\ hist' =
            IF ~hist.watching \/ TransferIndex(TheWorld, hist.id) = 0 THEN hist
            ELSE LET moved == NumSub(BalanceOf(W.server, hist.destination),
                                     BalanceOf(server, hist.destination))
                     due == NumLt(Zero, TransferOf(server, hist.id).remaining_amount)
                 IN [hist EXCEPT !.ticks = @ + 1,
                                 !.delivered = NumAdd(@, moved),
                                 !.skipped = IF due /\ NumEq(moved, Zero) THEN @ + 1 ELSE @]

SchedSetFrozen ==
  \E id \in OpenCitizens, frozen \in BOOLEAN :
    /\ Becomes(InMemoryServer_set_frozen(TheWorld, Government, get_account(TheWorld, id), frozen),
               [op |-> "set_frozen", account |-> get_account(TheWorld, id), frozen |-> frozen, exc |-> None])
    /\ UNCHANGED hist

SchedTransfer ==
  \E src \in OpenCitizens, dst \in OpenCitizens, amount \in {Fraction(1, 1)} :
    /\ src # dst
    /\ Becomes(InMemoryServer_transfer(TheWorld, src, get_account(TheWorld, src),
                                       get_account(TheWorld, dst), amount),
               [op |-> "transfer", source |-> get_account(TheWorld, src),
                destination |-> get_account(TheWorld, dst), amount |-> amount, exc |-> None])
    /\ UNCHANGED hist

NextSchedule ==
  \/ SchedCreateRecurringTransfer
  \/ SchedTick
  \/ SchedSetFrozen
  \/ SchedTransfer

SpecSchedule == InitRecurring /\ [][NextSchedule]_vars

----------------------------------------------------------------------------
(* The authorize command of the command layer (src/src/commands.py) on an  *)
(* InMemoryServer.                                                         *)

LowerCase == "abcdefghijklmnopqrstuvwxyz"
UpperCase == "ABCDEFGHIJKLMNOPQRSTUVWXYZ"

\* str.upper()
RECURSIVE upper(_)
upper(s) ==
  IF s = "" THEN ""
  ELSE LET at == IndexOf(LowerCase, Head(s))
       IN (IF at = 0 THEN Head(s) ELSE SubSeq(UpperCase, at, at)) \o upper(Tail(s))

\* parse_authorization(message): <<>> for None, else <<beneficiary, level>>
parse_authorization(message) ==
  LET body == split(message)
  IN IF Len(body) # 3 THEN <<>>
     ELSE IF upper(body[3]) \in AuthNames THEN <<body[2], upper(body[3])>>
     ELSE <<>>

\* assert_is_account raises nothing for this name
is_account(W, account_name) == has_account(W, account_name)

\* assert_authorized raises nothing for this name and level
is_authorized(W, account_name, auth_level) ==
  /\ is_account(W, account_name)
  /\ Authorization[get_authorization(W, get_account(W, account_name))] >= Authorization[auth_level]

\* self.authorize(...): the method of the object's class
authorize(W, author, account, auth_level) ==
  IF W.server.cls = "LedgerServer" THEN LedgerServer_authorize(W, author, account, auth_level)
  ELSE {InMemoryServer_authorize(W, author, account, auth_level)}

\* str() of an account object, the default object.__repr__; the address is
\* whatever the allocator gave
ObjectAddresses == {"7f3a"}

ObjectStr(account) ==
  {<<"<accounting.InMemoryAccount object at 0x" \o address \o ">">> : address \in ObjectAddresses}

\* process_authorization(author, message, server): it hands server.authorize
\* the author's account object where an AccountId is expected
process_authorization(W, author, message) ==
  IF ~is_authorized(W, author, "ADMIN") THEN {Raise(W, "CommandException")}
  ELSE
    LET author_account == get_account(W, author)
        parsed == parse_authorization(message)
    IN IF parsed = <<>> THEN {Raise(W, "CommandException")}
       ELSE IF ~is_account(W, parse_account_id(parsed[1])) THEN {Raise(W, "CommandException")}
       ELSE UNION {{Return(W2, parsed[1] \o " now has authorization level " \o parsed[2] \o ".") :
                      W2 \in authorize(W, printed, get_account(W, parse_account_id(parsed[1])), parsed[2])} :
                   printed \in ObjectStr(author_account)}

\* the messages authors send
AuthorizeMessages ==
  {"authorize a admin", "authorize a developer", "authorize a citizen",
   "authorize b admin", "authorize b Officer", "authorize @government citizen",
   "authorize a king", "authorize c admin", "authorize b"}

\* the authorization levels of all accounts, by uuid
Levels(s) == [x \in DOMAIN s.objs |-> s.objs[x].auth]

ProcessAuthorization ==
  \E author \in Names \cup {Government}, message \in AuthorizeMessages :
    \E W \in process_authorization(TheWorld, author, message) :
      /\ Becomes(W, [op |-> "authorize", author |-> author, message |-> message,
                     author_level |-> IF has_account(TheWorld, author)
                                        THEN get_authorization(TheWorld, get_account(TheWorld, author))
                                        ELSE None,
                     exc |-> None])
      /\ Unwatch

NextAuth ==
  \/ MemOpenAccount
  \/ ProcessAuthorization

SpecAuth == InitMem /\ [][NextAuth]_vars

----------------------------------------------------------------------------
(* A LedgerServer, its callers, and restarts of the program on the ledger  *)
(* file it has written.                                                    *)

\* create_initial_ledger_entries(entries, leading_zero_count, initial_hash):
\* the ledgers it can return, from the i-th entry on
RECURSIVE InitialLedgers(_, _, _, _)
InitialLedgers(entries, i, leading_zero_count, last_hash) ==
  IF i > Len(entries) THEN {<<>>}
  ELSE UNION {{<<LedgerLine(sh[2], join(<<sh[1]>> \o split(entries[i])))>> \o rest :
                 rest \in InitialLedgers(entries, i + 1, leading_zero_count, sh[2])} :
              sh \in generate_salt_and_hash(last_hash, split(entries[i]), leading_zero_count)}

create_initial_ledger_entries(entries, leading_zero_count, initial_hash) ==
  InitialLedgers(entries, 1, leading_zero_count, initial_hash)

\* the unannotated ledgers the program is started on
InitialEntries ==
  {<<"1.0 open a u1", "2.0 print-money @government a 3", "3.0 add-tax-bracket @government 0 None 50 t">>}

\* the difficulty the server is constructed with (the code's default is 12)
LeadingZeroCounts == {3}

\* the clock when the program first starts
StartTime == 4

Init ==
  /\ \E entries \in InitialEntries, leading_zero_count \in LeadingZeroCounts,
        uuid4 \in GovernmentUUIDs :
       \E lines \in create_initial_ledger_entries(entries, leading_zero_count, EmptyHash) :
         LET W == LedgerServer_init(World(<<>>, lines, StartTime), leading_zero_count, uuid4)
         IN /\ server = W.server
            /\ ledger = W.ledger
            /\ now = W.now
            /\ last = [op |-> "__init__", exc |-> W.exc]
  /\ hist = NoHistory

\* the program is up: its last construction of a server did not fail
Running == ~(last.op = "__init__" /\ last.exc # None)

CanWrite == Running /\ Len(ledger) < MaxLedger /\ now < MaxClock

\* a fresh program run on the ledger file as it is
Restart ==
  /\ now < MaxClock
  /\ \E uuid4 \in GovernmentUUIDs :
       Becomes(LedgerServer_init(World(<<>>, ledger, now), server.leading_zero_count, uuid4),
               [op |-> "__init__", exc |-> None])
  /\ Unwatch

OpenAccount ==
  /\ CanWrite
  /\ \E id \in Names, uuid4 \in AccountUUIDs \ DOMAIN server.objs :
       \E W \in LedgerServer_open_account(TheWorld, id, uuid4) :
         Becomes(W, [op |-> "open_account", id |-> id, exc |-> None])
  /\ Unwatch

DeleteAccount ==
  /\ CanWrite
  /\ \E id \in OpenCitizens :
       \E W \in LedgerServer_delete_account(TheWorld, Government, id) :
         Becomes(W, [op |-> "delete_account", id |-> id, account |-> get_account(TheWorld, id),
                     exc |-> None])
  /\ Unwatch

PrintMoney ==
  /\ CanWrite
  /\ \E id \in OpenCitizens, amount \in {Fraction(1, 1)} :
       \E W \in LedgerServer_print_money(TheWorld, Government, get_account(TheWorld, id), amount) :
         Becomes(W, [op |-> "print_money", account |-> get_account(TheWorld, id), amount |-> amount,
                     exc |-> None])
  /\ Unwatch

RemoveFunds ==
  /\ CanWrite
  /\ \E id \in OpenCitizens, amount \in {Fraction(1, 1)} :
       \E W \in LedgerServer_remove_funds(TheWorld, Government, get_account(TheWorld, id), amount) :
         Becomes(W, [op |-> "remove_funds", account |-> get_account(TheWorld, id), amount |-> amount,
                     exc |-> None])
  /\ Unwatch

\* the amounts of the transfers asked for: one of them is not positive
TransferAmounts == {Fraction(0, 1), Fraction(1, 1)}

Transfer ==
  /\ CanWrite
  /\ \E src \in OpenCitizens, dst \in OpenNames, amount \in TransferAmounts :
       \E W \in LedgerServer_transfer(TheWorld, src, get_account(TheWorld, src),
                                      get_account(TheWorld, dst), amount) :
         Becomes(W, [op |-> "transfer", source |-> get_account(TheWorld, src),
                     destination |-> get_account(TheWorld, dst), amount |-> amount, exc |-> None])
  /\ Unwatch

SetFrozen ==
  /\ CanWrite
  /\ \E id \in OpenCitizens, frozen \in BOOLEAN :
       \E W \in LedgerServer_set_frozen(TheWorld, Government, get_account(TheWorld, id), frozen) :
         Becomes(W, [op |-> "set_frozen", account |-> get_account(TheWorld, id), frozen |-> frozen,
                     exc |-> None])
  /\ Unwatch

CreateRecurringTransfer ==
  /\ CanWrite
  /\ \E src \in OpenCitizens, dst \in OpenCitizens, tick_count \in TickCounts,
        transfer_id \in TransferIds :
       \E W \in LedgerServer_create_recurring_transfer(
                  TheWorld, src, get_account(TheWorld, src), get_account(TheWorld, dst),
                  Fraction(tick_count, 1), tick_count, transfer_id) :
         Becomes(W, [op |-> "create_recurring_transfer", id |-> transfer_id, exc |-> None])
  /\ Unwatch

Tick ==
  /\ CanWrite
  /\ \E W \in LedgerServer_notify_tick_elapsed(TheWorld, <<>>) :
       Becomes(W, [op |-> "notify_tick_elapsed", exc |-> None])
  /\ Unwatch

\* TaxMan.hypothetical_tax: what a round of taxation would collect
RECURSIVE SumDue(_, _)
SumDue(W, accounts) ==
  IF accounts = {} THEN Zero
  ELSE LET x == CHOOSE y \in accounts : TRUE
       IN NumAdd(get_account_tax(W, x), SumDue(W, accounts \ {x}))

hypothetical_tax(W) == SumDue(W, get_accounts(W))

ForceTax ==
  /\ CanWrite
  /\ \E W \in LedgerServer_force_tax(TheWorld, Government) :
       Becomes(W, [op |-> "force_tax", revenue |-> hypothetical_tax(TheWorld), exc |-> None])
  /\ Unwatch

ToggleAutoTax ==
  /\ CanWrite
  /\ \E W \in LedgerServer_toggle_auto_tax(TheWorld, Government) :
       Becomes(W, [op |-> "toggle_auto_tax", exc |-> None])
  /\ Unwatch

\* the authorize command, sent to a LedgerServer
AuthorizeCommand ==
  /\ CanWrite
  /\ \E author \in {Government, <<"a">>}, message \in {"authorize a admin"} :
       \E W \in process_authorization(TheWorld, author, message) :
         Becomes(W, [op |-> "authorize", author |-> author, message |-> message,
                     author_level |-> IF has_account(TheWorld, author)
                                        THEN get_authorization(TheWorld, get_account(TheWorld, author))
                                        ELSE None,
                     exc |-> None])
  /\ Unwatch

Next ==
  \/ OpenAccount
  \/ DeleteAccount
  \/ PrintMoney
  \/ RemoveFunds
  \/ Transfer
  \/ SetFrozen
  \/ CreateRecurringTransfer
  \/ Tick
  \/ ForceTax
  \/ ToggleAutoTax
  \/ AuthorizeCommand
  \/ Restart

Spec == Init /\ [][Next]_vars

----------------------------------------------------------------------------
(* Balances and transfers.                                                 *)

Balance(s, account) == s.objs[account].balance

\* C1: in every reachable state no account balance is negative.
C1_NoNegativeBalance ==
  \A account \in DOMAIN server.objs : NumLe(Zero, Balance(server, account))

\* the condition under which the specification lets a transfer through,
\* read off the state before the call
TransferAllowed(s, source, destination, amount) ==
  /\ amount.n > 0
  /\ NumLe(Zero, NumSub(Balance(s, source), amount))
  /\ ~s.objs[source].frozen
  /\ ~s.objs[destination].frozen

\* C3, as amended: a transfer succeeds exactly when the amount is positive,
\* the source can pay it and neither account is frozen (so a frozen account
\* blocks it and unfreezing re-enables it); on success between two different
\* accounts the source loses exactly the amount and the destination gains
\* exactly the amount, and a successful transfer from an account to itself
\* leaves its balance as it was.
C3_TransferExactlyWhenAllowed ==
  [][last'.op = "transfer" =>
       LET source == last'.source
           destination == last'.destination
           amount == last'.amount
       IN /\ (last'.exc = None) <=> TransferAllowed(server, source, destination, amount)
          /\ (last'.exc = None /\ source # destination) =>
               /\ NumEq(Balance(server', source), NumSub(Balance(server, source), amount))
               /\ NumEq(Balance(server', destination), NumAdd(Balance(server, destination), amount))
          /\ (last'.exc = None /\ source = destination) =>
               NumEq(Balance(server', source), Balance(server, source))]_vars

\* C3 as stated: on every successful transfer the source's balance goes down
\* by the amount and the destination's goes up by the amount.
C3_AsStated ==
  [][(last'.op = "transfer" /\ last'.exc = None) =>
       /\ NumEq(Balance(server', last'.source), NumSub(Balance(server, last'.source), last'.amount))
       /\ NumEq(Balance(server', last'.destination),
                NumAdd(Balance(server, last'.destination), last'.amount))]_vars

\* a transfer between two different accounts has just gone through and
\* the destination holds money
C3_Witness ==
  /\ last.op = "transfer"
  /\ last.exc = None
  /\ last.source # last.destination
  /\ NumLt(Zero, Balance(server, last.destination))

----------------------------------------------------------------------------
(* The authorize command.                                                  *)

\* C9: an authorize command changes a level only if its author is at least
\* ADMIN, grants DEVELOPER only if its author is a DEVELOPER, and changes the
\* level of a DEVELOPER account only if its author is a DEVELOPER.
C9_NoPrivilegeEscalation ==
  [][last'.op = "authorize" =>
       \A account \in DOMAIN server.objs :
         server'.objs[account].auth # server.objs[account].auth =>
           /\ Authorization[last'.author_level] >= Authorization["ADMIN"]
           /\ server'.objs[account].auth = "DEVELOPER" => last'.author_level = "DEVELOPER"
           /\ server.objs[account].auth = "DEVELOPER" => last'.author_level = "DEVELOPER"]_vars

----------------------------------------------------------------------------
(* Recurring transfers.                                                    *)

\* the watched transfer was created between unfrozen accounts, its source
\* held the whole amount, and only ticks have happened since
WatchedUndisturbed ==
  /\ hist.watching
  /\ ~hist.frozen
  /\ NumLe(NumMul(hist.per_tick, PyInt(hist.tick_count)), hist.source_balance)

IsListed(s, id) == \E i \in 1..Len(s.recurring_transfers) : s.recurring_transfers[i].id = id

\* what the watched transfer has moved after k ticks
Moved(k) == NumMul(hist.per_tick, PyInt(IF k <= hist.tick_count THEN k ELSE hist.tick_count))

\* the balances the watched transfer's k installments lead to
BalancesAfter(k) ==
  IF hist.source = hist.destination
    THEN NumEq(Balance(server, hist.source), hist.source_balance)
    ELSE /\ NumEq(Balance(server, hist.source), NumSub(hist.source_balance, Moved(k)))
         /\ NumEq(Balance(server, hist.destination), NumAdd(hist.destination_balance, Moved(k)))

\* C10, as amended: a recurring transfer of a per tick over n ticks between
\* two different unfrozen accounts whose source holds a*n moves exactly a on
\* each of the next n ticks, so that after n ticks the source is down by a*n
\* and the destination up by a*n; after those n ticks the transfer is still
\* registered, with nothing remaining, and it is the tick after them, which
\* moves no money, that removes it from the active list.
C10_RecurringTransferRunsItsCourse ==
  WatchedUndisturbed =>
    /\ BalancesAfter(hist.ticks)
    /\ hist.ticks <= hist.tick_count =>
         /\ IsListed(server, hist.id)
         /\ NumEq(server.recurring_transfers[TransferIndex(TheWorld, hist.id)].remaining_amount,
                  NumMul(hist.per_tick, PyInt(hist.tick_count - hist.ticks)))
    /\ hist.ticks > hist.tick_count => ~IsListed(server, hist.id)

\* C10 as stated: after exactly n ticks the balances have moved by a*n and
\* the transfer is no longer in the active list.
C10_AsStated ==
  (WatchedUndisturbed /\ hist.ticks = hist.tick_count) =>
    /\ NumEq(Balance(server, hist.source), NumSub(hist.source_balance, Moved(hist.ticks)))
    /\ NumEq(Balance(server, hist.destination), NumAdd(hist.destination_balance, Moved(hist.ticks)))
    /\ ~IsListed(server, hist.id)

\* two installments of a transfer between different accounts have been paid
\* on two ticks and that was the whole of it
C10_Witness ==
  /\ WatchedUndisturbed
  /\ hist.source # hist.destination
  /\ hist.tick_count = 2
  /\ hist.ticks = hist.tick_count
  /\ last.op = "notify_tick_elapsed"

----------------------------------------------------------------------------
(* The money supply of a LedgerServer.                                     *)

\* what the step just taken added to the total of all balances
Supplied == NumSub(TotalMoney(server'), TotalMoney(server))

\* the step is a call of op that returned normally
Did(op) == last'.op = op /\ last'.exc = None

\* C2: a transfer leaves balance(source) + balance(destination) as it was,
\* frozen or not; print_money adds exactly its amount to the total of all
\* balances, remove_funds takes exactly its amount from it, delete_account
\* takes the balance of the deleted account from it, and every other call -
\* transfers, ticks with their installments, and the collection of taxes,
\* which moves the tax to the government account - leaves the total as it
\* was.
C2_MoneySupply ==
  [][last'.op # "__init__" =>
       /\ Did("transfer") =>
             NumEq(NumAdd(Balance(server', last'.source), Balance(server', last'.destination)),
                   NumAdd(Balance(server, last'.source), Balance(server, last'.destination)))
       /\ IF Did("print_money") THEN NumEq(Supplied, last'.amount)
          ELSE IF Did("remove_funds") THEN NumEq(Supplied, NumSub(Zero, last'.amount))
          ELSE IF Did("delete_account")
            THEN NumEq(Supplied, NumSub(Zero, Balance(server, last'.account)))
          ELSE NumEq(Supplied, Zero)]_vars

\* a round of taxation has collected money
C2_Witness == last.op = "force_tax" /\ last.exc = None /\ last.revenue.n > 0

\* C2 as the specification states it: the total changes through
\* print_money, remove_funds and tax collection only, and then by exactly
\* the amount of the operation.
C2_AsStated ==
  [][last'.op # "__init__" =>
       IF Did("print_money") THEN NumEq(Supplied, last'.amount)
       ELSE IF Did("remove_funds") THEN NumEq(Supplied, NumSub(Zero, last'.amount))
       ELSE IF Did("force_tax")
         THEN NumEq(Supplied, last'.revenue) \/ NumEq(Supplied, NumSub(Zero, last'.revenue))
       ELSE NumEq(Supplied, Zero)]_vars

\* C4: a transfer that is rejected leaves every account, every other part
\* of the server and the ledger as they were.
C4_RejectedTransferChangesNothing ==
  [][last'.op = "transfer" /\ last'.exc # None => server' = server /\ ledger' = ledger]_vars

\* a transfer of a positive amount between unfrozen accounts was rejected:
\* the source could not cover it
C4_Witness ==
  /\ last.op = "transfer" /\ last.exc # None
  /\ last.amount.n > 0
  /\ ~server.objs[last.source].frozen /\ ~server.objs[last.destination].frozen

----------------------------------------------------------------------------
(* The ledger and the state replayed from it.                              *)

\* the identities of s with, for each, the account it resolves to; the uuid
\* of the government account, which no ledger entry records, is left out of
\* the comparison
ResolvedCitizens(s) ==
  [k \in DOMAIN s.accounts |->
     IF s.accounts[k] = s.gov_account THEN [s.objs[s.accounts[k]] EXCEPT !.uuid = "@government"]
     ELSE s.objs[s.accounts[k]]]

\* C5: when a running LedgerServer is replaced by one constructed on the
\* ledger it has written, the construction succeeds and the new server
\* resolves the same identities to accounts with the same uuids, balances,
\* authorization levels, frozen flags and proxies (the government account,
\* whose uuid the ledger does not record, is compared by its fields only).
C5_ReplayEqualsLive ==
  [][Running /\ last'.op = "__init__" =>
       last'.exc = None /\ ResolvedCitizens(server') = ResolvedCitizens(server)]_vars

\* the name of the account with this uuid
NameOf(s, account) ==
  IF account \in DOMAIN s.inv_accounts /\ s.inv_accounts[account] # <<>>
    THEN IdStr(s.inv_accounts[account][1]) ELSE account

\* what of a loaded server the ledger determines: everything but the uuid of
\* the government account and last_tick_timestamp
LogView(W) ==
  [exc |-> W.exc,
   accounts |-> ResolvedCitizens(W.server),
   recurring_transfers |->
     [i \in 1..Len(W.server.recurring_transfers) |->
        [W.server.recurring_transfers[i] EXCEPT !.source = NameOf(W.server, @),
                                                !.destination = NameOf(W.server, @)]],
   taxObject |-> W.server.taxObject,
   last_hash |-> W.server.last_hash]

\* the load of the ledger at clock 0 by a server whose government account
\* draws the first uuid
ReferenceLoad(lines, leading_zero_count) ==
  LedgerServer_init(World(<<>>, lines, 0), leading_zero_count, "g1")

\* C6: whenever a server is constructed on a ledger, whatever the clock
\* reads and whatever uuid the government account draws, it ends with the
\* same outcome (loaded, or failed with the same exception), the same
\* accounts under the same identities with the same balances, authorization
\* levels and flags, the same recurring transfers, tax brackets and running
\* digest as any other load of that ledger; only the uuid of the government
\* account and last_tick_timestamp are not determined by the ledger.
C6_ReplayDeterministic ==
  [][last'.op = "__init__" =>
       LogView([server |-> server', exc |-> last'.exc])
         = LogView(ReferenceLoad(ledger, server.leading_zero_count))]_vars

\* a ledger with an open recurring transfer has been loaded, at a later
\* clock and with another government uuid than the reference load's
C6_Witness ==
  /\ last.op = "__init__" /\ last.exc = None
  /\ server.gov_account # "g1"
  /\ server.recurring_transfers # <<>>

\* C6 as the specification states it: the whole reconstructed state is a
\* function of the ledger and depends neither on the clock nor on what is
\* drawn at load time.
C6_AsStated ==
  [][last'.op = "__init__" => server' = ReferenceLoad(ledger, server.leading_zero_count).server]_vars

\* the chain and difficulty verification of _read_ledger, from line i on
RECURSIVE Verifies(_, _, _, _)
Verifies(lines, i, last_hash, leading_zero_count) ==
  IF i > Len(lines) THEN TRUE
  ELSE LET elems == SplitLine(lines[i])
           expected_hash == compute_hash(last_hash, Tail(elems))
       IN /\ expected_hash = elems[1]
          /\ has_leading_zeros(elems[1], leading_zero_count)
          /\ Verifies(lines, i + 1, expected_hash, leading_zero_count)

\* C8: the ledger of a running server passes the chain and difficulty
\* verification of the loader, and the running digest of the server is the
\* digest of the last line.
C8_LiveLedgerVerifies ==
  Running =>
    /\ Verifies(ledger, 1, EmptyHash, server.leading_zero_count)
    /\ server.last_hash = IF ledger = <<>> THEN EmptyHash ELSE ledger[Len(ledger)].hexdigest

----------------------------------------------------------------------------
(* A ledger file that is changed behind the back of the program, and the   *)
(* load that follows.                                                      *)

\* the unannotated ledgers that are sealed, changed and loaded
SealedEntries ==
  InitialEntries \cup
    {<<"1.0 open a u1", "2.0 open b u2", "3.0 print-money @government a 2", "4.0 transfer a a b 1">>}

\* the bytes a changed byte is changed to
TamperBytes == {"x", "0", " "}

InitTamper ==
  /\ \E entries \in SealedEntries, leading_zero_count \in LeadingZeroCounts,
        uuid4 \in GovernmentUUIDs :
       \E lines \in create_initial_ledger_entries(entries, leading_zero_count, EmptyHash) :
         LET W == LedgerServer_init(World(<<>>, lines, StartTime), leading_zero_count, uuid4)
         IN /\ server = W.server
            /\ ledger = W.ledger
            /\ now = W.now
            /\ last = [op |-> "__init__", exc |-> W.exc]
  /\ hist = NoHistory

\* the ledger is as the program sealed it
Sealed == last.op = "__init__" /\ last.exc = None /\ "line" \notin DOMAIN last

\* s with its at-th byte replaced by c
WithByte(s, at, c) == SubSeq(s, 1, at - 1) \o c \o SubSeq(s, at + 1, Len(s))

\* a byte of the salt, the timestamp, the command or an argument of a line
\* is changed
TamperField ==
  /\ Sealed
  /\ \E line \in 1..Len(ledger), c \in TamperBytes : \E at \in 1..Len(ledger[line].rest) :
       /\ SubSeq(ledger[line].rest, at, at) \notin Whitespace \cup {c}
       /\ ledger' = [ledger EXCEPT ![line].rest = WithByte(@, at, c)]
       /\ last' = [op |-> "tamper", line |-> line, what |-> "field", exc |-> None]
  /\ UNCHANGED <<server, now, hist>>

\* a hex digit of the digest of a line is changed: one of the leading two,
\* or one of those after them, which leaves a digest no bytes of a ledger
\* hash to
TamperDigest ==
  /\ Sealed
  /\ \E line \in 1..Len(ledger) :
       /\ \/ \E at \in 1..2, c \in {"0", "f"} :
               /\ ledger[line].hexdigest.hex[at] # c
               /\ ledger' = [ledger EXCEPT ![line].hexdigest.hex[at] = c]
          \/ ledger' = [ledger EXCEPT ![line].hexdigest.of = <<@[1], "?">>]
       /\ last' = [op |-> "tamper", line |-> line, what |-> "digest", exc |-> None]
  /\ UNCHANGED <<server, now, hist>>

\* a line is replaced by the same entry sealed into the chain with a salt
\* whose digest has fewer leading zero bits than the difficulty asks for
Underseal ==
  /\ Sealed
  /\ \E line \in 1..Len(ledger), n \in Salts :
       LET previous_hash == IF line = 1 THEN EmptyHash ELSE ledger[line - 1].hexdigest
           elems == <<ToString(n)>> \o Tail(split(ledger[line].rest))
           new_hash == compute_hash(previous_hash, elems)
       IN /\ ~has_leading_zeros(new_hash, server.leading_zero_count)
          /\ ledger' = [ledger EXCEPT ![line] = LedgerLine(new_hash, join(elems))]
          /\ last' = [op |-> "tamper", line |-> line, what |-> "difficulty", exc |-> None]
  /\ UNCHANGED <<server, now, hist>>

\* the program is started on the changed ledger
LoadTampered ==
  /\ last.op = "tamper"
  /\ \E uuid4 \in GovernmentUUIDs :
       Becomes(LedgerServer_init(World(<<>>, ledger, now), server.leading_zero_count, uuid4),
               [op |-> "__init__", line |-> last.line, what |-> last.what, exc |-> None])
  /\ UNCHANGED hist

NextTamper ==
  \/ TamperField
  \/ TamperDigest
  \/ Underseal
  \/ LoadTampered

SpecTamper == InitTamper /\ [][NextTamper]_vars

\* the exceptions _read_ledger raises for a line that fails verification
IntegrityErrors ==
  {"ledger hash value does not match expected hash value",
   "hash value does not have enough leading zeros"}

\* C7: when a byte of a field or of the digest of a line has been changed,
\* or a line has been sealed again below the difficulty, the next load
\* fails with an integrity error, and the server is left as the load of the
\* lines before that line leaves it: the changed line and the lines after
\* it are not replayed.
C7_ChainIntegrity ==
  [][last.op = "tamper" /\ last'.op = "__init__" =>
       /\ last'.exc \in IntegrityErrors
       /\ server' = LedgerServer_init(World(<<>>, SubSeq(ledger, 1, last.line - 1), now),
                                      server.leading_zero_count, server'.gov_account).server]_vars

\* a load has stopped at a changed argument of the third line, the two
\* lines before it replayed
C7_Witness ==
  /\ last.op = "__init__" /\ "line" \in DOMAIN last
  /\ last.line = 3 /\ last.what = "field"
  /\ last.exc = "ledger hash value does not match expected hash value"
  /\ "a" \in DOMAIN server.accounts

----------------------------------------------------------------------------
(* Taxation on a LedgerServer: the servers of test_tax and its like, and   *)
(* the rounds of taxation and freezes that follow.                         *)

\* the brackets of test_tax: add-tax-bracket 0 500 10, 500 1000 20 and
\* 1000 2000 50
TestBrackets ==
  <<[name |-> "Tax10", start |-> PyInt(0), end |-> <<PyInt(500)>>, rate |-> PyInt(10)],
    [name |-> "Tax20", start |-> PyInt(500), end |-> <<PyInt(1000)>>, rate |-> PyInt(20)],
    [name |-> "Tax50", start |-> PyInt(1000), end |-> <<PyInt(2000)>>, rate |-> PyInt(50)]>>

\* one bracket without an upper bound
OpenBracket ==
  <<[name |-> "Tax25", start |-> PyInt(1000), end |-> <<>>, rate |-> PyInt(25)]>>

BracketMenus == {TestBrackets, OpenBracket}

\* the balances print_money gives the two accounts
TaxBalances == {0, 1425, 2000}

RECURSIVE AddBrackets(_, _, _)
AddBrackets(Ws, brackets, i) ==
  IF i > Len(brackets) THEN Ws
  ELSE AddBrackets(Then(Ws, LAMBDA W : LedgerServer_add_tax_bracket(W, Government, brackets[i].start,
                                         brackets[i].end, brackets[i].rate, brackets[i].name)),
                   brackets, i + 1)

\* a new LedgerServer on which accounts a and b were opened, given x and y,
\* and the brackets were added
TaxedServers(x, y, brackets) ==
  LET W0 == LedgerServer_init(World(<<>>, <<>>, 0), 3, "g1")
      Ws1 == LedgerServer_open_account(W0, <<"a">>, "u1")
      Ws2 == Then(Ws1, LAMBDA W : LedgerServer_open_account(W, <<"b">>, "u2"))
      Ws3 == Then(Ws2, LAMBDA W : IF x > 0 THEN LedgerServer_print_money(W, Government, "u1", PyInt(x))
                                  ELSE {W})
      Ws4 == Then(Ws3, LAMBDA W : IF y > 0 THEN LedgerServer_print_money(W, Government, "u2", PyInt(y))
                                  ELSE {W})
  IN AddBrackets(Ws4, brackets, 1)

InitTax ==
  /\ \E x \in TaxBalances, y \in TaxBalances, brackets \in BracketMenus :
       \E W \in TaxedServers(x, y, brackets) :
         /\ server = W.server
         /\ ledger = W.ledger
         /\ now = W.now
  /\ last = [op |-> "add_tax_bracket", exc |-> None]
  /\ hist = [ops |-> 0]

TaxForceTax ==
  /\ hist.ops < MaxTaxOps
  /\ \E W \in LedgerServer_force_tax(TheWorld, Government) :
       Becomes(W, [op |-> "force_tax", before |-> server, exc |-> None])
  /\ hist' = [ops |-> hist.ops + 1]

TaxSetFrozen ==
  /\ hist.ops < MaxTaxOps
  /\ \E id \in OpenCitizens, frozen \in BOOLEAN :
       \E W \in LedgerServer_set_frozen(TheWorld, Government, get_account(TheWorld, id), frozen) :
         Becomes(W, [op |-> "set_frozen", account |-> get_account(TheWorld, id),
                     frozen |-> frozen, exc |-> None])
  /\ hist' = [ops |-> hist.ops + 1]

\* bracket.get_tax(account) for a bracket and an account of the server
TaxGetTax ==
  /\ \E name \in DOMAIN server.taxObject.tax_brackets, account \in get_accounts(TheWorld) :
       LET bracket == server.taxObject.tax_brackets[name]
           bal == get_balance(TheWorld, account)
       IN last' = [op |-> "get_tax", bracket |-> bracket, bal |-> bal,
                   ret |-> get_tax(bracket, bal), exc |-> None]
  /\ UNCHANGED <<server, ledger, now, hist>>

\* get_account_tax(account) for an account of the server
TaxGetAccountTax ==
  /\ \E account \in get_accounts(TheWorld) :
       last' = [op |-> "get_account_tax", account |-> account,
                ret |-> get_account_tax(TheWorld, account), exc |-> None]
  /\ UNCHANGED <<server, ledger, now, hist>>

NextTax ==
  \/ TaxForceTax
  \/ TaxSetFrozen
  \/ TaxGetTax
  \/ TaxGetAccountTax

SpecTax == InitTax /\ [][NextTax]_vars

\* the state of test_tax before its force-tax: the citizen holds 2000,
\* nobody else holds anything, nobody is frozen, the three brackets are in
\* place
TestTaxServer(s) ==
  /\ NumEq(BalanceOf(s, "u1"), PyInt(2000))
  /\ NumEq(BalanceOf(s, "u2"), Zero)
  /\ NumEq(BalanceOf(s, s.gov_account), Zero)
  /\ ~s.objs["u1"].frozen /\ ~s.objs["u2"].frozen
  /\ DOMAIN s.taxObject.tax_brackets = {"Tax10", "Tax20", "Tax50"}

\* C13: with one non-exempt account holding 2000 and the brackets
\* [0,500]@10%, [500,1000]@20%, [1000,2000]@50%, force-tax leaves the
\* account at 1425 and the government account at 575.
C13_TestTax ==
  (last.op = "force_tax" /\ TestTaxServer(last.before)) =>
    /\ last.exc = None
    /\ NumEq(BalanceOf(server, "u1"), PyInt(1425))
    /\ NumEq(BalanceOf(server, server.gov_account), PyInt(575))

\* what a round of taxation on server s has to take from this account
DueOf(s, account) == get_account_tax(World(s, <<>>, 0), account)

\* the tax on this account can be collected on server s: something is due,
\* the account can pay it and neither it nor the government is frozen
Collectable(s, account) ==
  /\ NumLt(Zero, DueOf(s, account))
  /\ NumLe(DueOf(s, account), BalanceOf(s, account))
  /\ ~s.objs[account].frozen
  /\ ~s.objs[s.gov_account].frozen

\* C15: a round of taxation collects from every account whose tax can be
\* collected, whatever happens to the collection from the other accounts.
C15_TaxIsolatesFailures ==
  last.op = "force_tax" =>
    \A account \in AccountUUIDs :
      Collectable(last.before, account) =>
        NumEq(BalanceOf(server, account),
              NumSub(BalanceOf(last.before, account), DueOf(last.before, account)))

\* r is the whole number nearest to x, the even one of the two when x lies
\* halfway between two whole numbers
NearestWhole(r, x) ==
  LET twice == NumMul(PyInt(2), NumSub(r, x))
      distance == IF twice.n < 0 THEN NumSub(Zero, twice) ELSE twice
  IN /\ r.d = 1
     /\ NumLe(distance, PyInt(1))
     /\ NumEq(distance, PyInt(1)) => r.n % 2 = 0

\* rate * (upto - start) / 100
SliceTax(bracket, upto) ==
  NumDivInt(NumMul(bracket.tax_rate, NumSub(upto, bracket.start)), 100)

\* the part of the balance a bracket taxes ends at the balance or at the end
\* of the bracket, whichever comes first
TaxedUpTo(bracket, bal) ==
  IF bracket.end # <<>> /\ NumLt(bracket.end[1], bal) THEN bracket.end[1] ELSE bal

\* the sum of what the brackets named take from a balance
RECURSIVE SumSlices(_, _, _)
SumSlices(s, names, bal) ==
  IF names = {} THEN Zero
  ELSE LET name == CHOOSE k \in names : TRUE
       IN NumAdd(get_tax(s.taxObject.tax_brackets[name], bal), SumSlices(s, names \ {name}, bal))

\* C14, as amended: get_tax returns 0 when the balance is below the start
\* of the bracket, rate * (balance - start) / 100 rounded to the nearest
\* whole number (halves to the even one) when the balance is within the
\* bracket or the bracket has no end, and rate * (end - start) / 100 rounded
\* the same way when the balance is above the end; get_account_tax is the
\* sum of these whole numbers over all brackets, and 0 for the government
\* account, which the default prefixes exempt from every bracket.
C14_BracketTax ==
  /\ last.op = "get_tax" =>
       IF NumLt(last.bal, last.bracket.start) THEN NumEq(last.ret, Zero)
       ELSE NearestWhole(last.ret, SliceTax(last.bracket, TaxedUpTo(last.bracket, last.bal)))
  /\ last.op = "get_account_tax" =>
       IF last.account = server.gov_account THEN NumEq(last.ret, Zero)
       ELSE NumEq(last.ret, SumSlices(server, DOMAIN server.taxObject.tax_brackets,
                                      BalanceOf(server, last.account)))

\* C14 as stated: within the bracket get_tax returns exactly
\* rate * (balance - start) / 100, above it exactly rate * (end - start) / 100.
C14_AsStated ==
  (last.op = "get_tax" /\ ~NumLt(last.bal, last.bracket.start)) =>
    NumEq(last.ret, SliceTax(last.bracket, TaxedUpTo(last.bracket, last.bal)))

\* get_tax was asked for a balance inside a bracket whose slice of it is
\* not a whole number
C14_Witness ==
  /\ last.op = "get_tax"
  /\ NumLt(last.bracket.start, last.bal)
  /\ TaxedUpTo(last.bracket, last.bal) = last.bal
  /\ SliceTax(last.bracket, last.bal).d # 1

----------------------------------------------------------------------------
(* Automatic taxation: the server of test_auto_tax, the auto-tax switch    *)
(* and ticks.                                                              *)

\* hist counts the ticks taken, those of them taken with auto-tax on, the
\* uses of the switch and the rounds of taxation the ticks have performed
InitAutoTax ==
  /\ \E W \in TaxedServers(2000, 0, TestBrackets) :
       /\ server = W.server
       /\ ledger = W.ledger
       /\ now = W.now
  /\ last = [op |-> "add_tax_bracket", exc |-> None]
  /\ hist = [ticks |-> 0, enabled_ticks |-> 0, idle_ticks |-> 0, toggles |-> 0, collections |-> 0]

\* the transfer entries among the lines the ledger has from position n on
TransfersLoggedFrom(lines, n) ==
  Cardinality({i \in n..Len(lines) : split(lines[i].rest)[3] = "transfer"})

AutoTick ==
  /\ hist.enabled_ticks < MaxAutoTicks
  /\ ~server.taxObject.autoTax => hist.idle_ticks < MaxIdleTicks
  /\ \E W \in LedgerServer_notify_tick_elapsed(TheWorld, <<>>) :
       /\ Becomes(W, [op |-> "notify_tick_elapsed", auto_tax |-> server.taxObject.autoTax,
                      countdown |-> server.taxObject.ticks_till_tax_tmp,
                      collected |-> TransfersLoggedFrom(W.ledger, Len(ledger) + 1), exc |-> None])
       /\ hist' = [hist EXCEPT !.ticks = @ + 1,
                               !.enabled_ticks = IF server.taxObject.autoTax THEN @ + 1 ELSE @,
                               !.idle_ticks = IF server.taxObject.autoTax THEN @ ELSE @ + 1,
                               !.collections = @ + TransfersLoggedFrom(W.ledger, Len(ledger) + 1)]

AutoToggle ==
  /\ hist.toggles < MaxToggles
  /\ \E W \in LedgerServer_toggle_auto_tax(TheWorld, Government) :
       Becomes(W, [op |-> "toggle_auto_tax", exc |-> None])
  /\ hist' = [hist EXCEPT !.toggles = @ + 1]

NextAutoTax ==
  \/ AutoTick
  \/ AutoToggle

SpecAutoTax == InitAutoTax /\ [][NextAutoTax]_vars

\* C16: while auto-tax is on every tick takes one off the countdown; the
\* tick that brings it to zero performs exactly one round of taxation and
\* sets the countdown back to the tax regularity of 28; ticks taken while
\* auto-tax is off leave the countdown alone and collect nothing.  Counted
\* from the fresh countdown of a new server, n ticks with auto-tax on have
\* performed exactly n \div 28 rounds of taxation.
C16_AutoTaxCountdown ==
  /\ hist.collections = hist.enabled_ticks \div tax_regularity
  /\ last.op = "notify_tick_elapsed" =>
       IF ~last.auto_tax
         THEN /\ last.collected = 0
              /\ server.taxObject.ticks_till_tax_tmp = last.countdown
         ELSE IF last.countdown = 1
           THEN /\ last.collected = 1
                /\ server.taxObject.ticks_till_tax_tmp = tax_regularity
           ELSE /\ last.collected = 0
                /\ server.taxObject.ticks_till_tax_tmp = last.countdown - 1

\* the second round of taxation, on the 56th tick with auto-tax on
C16_Witness ==
  /\ last.op = "notify_tick_elapsed"
  /\ last.collected = 1
  /\ hist.enabled_ticks = 2 * tax_regularity
  /\ hist.collections = 2

----------------------------------------------------------------------------
(* Automatic taxation across a restart.                                    *)

\* the server of test_auto_tax, on which auto-tax is switched, ticks pass,
\* tax is forced and the program is restarted, a few calls in all
InitReplayTax ==
  /\ \E W \in TaxedServers(2000, 0, TestBrackets) :
       /\ server = W.server
       /\ ledger = W.ledger
       /\ now = W.now
  /\ last = [op |-> "add_tax_bracket", exc |-> None]
  /\ hist = [ops |-> 0]

ReplayTaxToggle ==
  /\ hist.ops < MaxReplayOps
  /\ \E W \in LedgerServer_toggle_auto_tax(TheWorld, Government) :
       Becomes(W, [op |-> "toggle_auto_tax", exc |-> None])
  /\ hist' = [ops |-> hist.ops + 1]

ReplayTaxTick ==
  /\ hist.ops < MaxReplayOps
  /\ \E W \in LedgerServer_notify_tick_elapsed(TheWorld, <<>>) :
       Becomes(W, [op |-> "notify_tick_elapsed", exc |-> None])
  /\ hist' = [ops |-> hist.ops + 1]

ReplayTaxForceTax ==
  /\ hist.ops < MaxReplayOps
  /\ \E W \in LedgerServer_force_tax(TheWorld, Government) :
       Becomes(W, [op |-> "force_tax", exc |-> None])
  /\ hist' = [ops |-> hist.ops + 1]

\* a fresh program run on the ledger file as it is
ReplayTaxRestart ==
  /\ hist.ops < MaxReplayOps
  /\ Becomes(LedgerServer_init(World(<<>>, ledger, now), server.leading_zero_count, "g2"),
             [op |-> "__init__", exc |-> None])
  /\ hist' = [ops |-> hist.ops + 1]

NextReplayTax ==
  \/ ReplayTaxToggle
  \/ ReplayTaxTick
  \/ ReplayTaxForceTax
  \/ ReplayTaxRestart

SpecReplayTax == InitReplayTax /\ [][NextReplayTax]_vars

\* C17: a server constructed on the ledger a live server wrote has the
\* auto-tax switch and the countdown to the next round of taxation of that
\* live server.
C17_AutoTaxSurvivesRestart ==
  [][(Running /\ last'.op = "__init__" /\ last'.exc = None) =>
       /\ server'.taxObject.autoTax = server.taxObject.autoTax
       /\ server'.taxObject.ticks_till_tax_tmp = server.taxObject.ticks_till_tax_tmp]_vars

----------------------------------------------------------------------------
(* A process that stops in the middle of an operation and is started       *)
(* again on the ledger file as the stop left it.                           *)

\* two accounts with 2000 each and the brackets of test_tax
InitCrash ==
  /\ \E W \in TaxedServers(2000, 2000, TestBrackets) :
       /\ server = W.server
       /\ ledger = W.ledger
       /\ now = W.now
  /\ last = [op |-> "add_tax_bracket", exc |-> None]
  /\ hist = [ops |-> 0]

CrashCreateRecurringTransfer ==
  /\ hist.ops < MaxCrashOps
  /\ \E tick_count \in TickCounts, transfer_id \in TransferIds :
       \E W \in LedgerServer_create_recurring_transfer(TheWorld, <<"a">>, "u1", "u2",
                                                     Fraction(2 * tick_count, 1), tick_count, transfer_id) :
         Becomes(W, [op |-> "create_recurring_transfer", exc |-> None])
  /\ hist' = [ops |-> hist.ops + 1]

CrashToggleAutoTax ==
  /\ hist.ops < MaxCrashOps
  /\ \E W \in LedgerServer_toggle_auto_tax(TheWorld, Government) :
       Becomes(W, [op |-> "toggle_auto_tax", exc |-> None])
  /\ hist' = [ops |-> hist.ops + 1]

CrashTick ==
  /\ hist.ops < MaxCrashOps
  /\ \E W \in LedgerServer_notify_tick_elapsed(TheWorld, <<>>) :
       Becomes(W, [op |-> "notify_tick_elapsed", exc |-> None])
  /\ hist' = [ops |-> hist.ops + 1]

CrashForceTax ==
  /\ hist.ops < MaxCrashOps
  /\ \E W \in LedgerServer_force_tax(TheWorld, Government) :
       Becomes(W, [op |-> "force_tax", exc |-> None])
  /\ hist' = [ops |-> hist.ops + 1]

\* what a load of these lines makes of the accounts, the recurring transfers
\* and the tax state
EffectView(lines, leading_zero_count) ==
  LET view == LogView(ReferenceLoad(lines, leading_zero_count))
  IN [exc |-> view.exc, accounts |-> view.accounts,
      recurring_transfers |-> view.recurring_transfers, taxObject |-> view.taxObject]

\* the process stops during an operation that would have ended in world W,
\* with the first k lines of the ledger on disk, and is started again
StopDuring(call, W, k) ==
  /\ W.exc = None
  /\ Becomes(LedgerServer_init(World(<<>>, SubSeq(W.ledger, 1, k), W.now),
                               server.leading_zero_count, "g2"),
             [op |-> "stop", during |-> call, written |-> k - Len(ledger),
              would_write |-> Len(W.ledger) - Len(ledger),
              none |-> EffectView(ledger, server.leading_zero_count),
              full |-> EffectView(W.ledger, server.leading_zero_count), exc |-> None])
  /\ hist' = [ops |-> hist.ops + 1]

StopDuringTick ==
  /\ hist.ops < MaxCrashOps
  /\ \E W \in LedgerServer_notify_tick_elapsed(TheWorld, <<>>) :
       \E k \in Len(ledger)..Len(W.ledger) : StopDuring("notify_tick_elapsed", W, k)

StopDuringForceTax ==
  /\ hist.ops < MaxCrashOps
  /\ \E W \in LedgerServer_force_tax(TheWorld, Government) :
       \E k \in Len(ledger)..Len(W.ledger) : StopDuring("force_tax", W, k)

NextCrash ==
  \/ CrashCreateRecurringTransfer
  \/ CrashToggleAutoTax
  \/ CrashTick
  \/ CrashForceTax
  \/ StopDuringTick
  \/ StopDuringForceTax

SpecCrash == InitCrash /\ [][NextCrash]_vars

\* C18: when the process stops during a tick or a force-tax, the ledger it
\* leaves replays to the state in which the operation took full effect or to
\* the state in which it had no effect at all.
C18_CrashAtomicity ==
  last.op = "stop" =>
    EffectView(ledger, server.leading_zero_count) \in {last.none, last.full}

\* the command and the timestamp of a ledger line
CommandOf(line) == split(line.rest)[3]
TimestampOf(line) == ParseFloat(split(line.rest)[2]).val

\* the entry an operation appends when it is done, and the entries of the
\* steps it is made of
OwnEntry ==
  [notify_tick_elapsed |-> "tick", force_tax |-> "force-tax",
   toggle_auto_tax |-> "toggle-auto-tax", create_recurring_transfer |-> "create-recurring-transfer"]
InnerEntries ==
  [notify_tick_elapsed |-> {"perform-recurring-transfer", "transfer"}, force_tax |-> {"transfer"},
   toggle_auto_tax |-> {}, create_recurring_transfer |-> {}]

\* the accounts of a server, with their balances, by name
Holdings(s) == ResolvedCitizens(s)

----------------------------------------------------------------------------
(* Opening accounts on a LedgerServer.                                     *)

\* C20: open_account(id) raises 'Account already exists.' when id already
\* resolves to an account and then leaves the server and the ledger as they
\* were; otherwise it adds exactly one account, with balance 0,
\* authorization CITIZEN and not frozen, under that id, leaves every other
\* account as it was and appends exactly one entry, an open entry, to the
\* ledger.
C20_OpenAccount ==
  [][last'.op = "open_account" =>
       IF has_account(TheWorld, last'.id)
         THEN /\ last'.exc = "Account already exists."
              /\ server' = server
              /\ ledger' = ledger
         ELSE /\ last'.exc = None
              /\ DOMAIN server'.accounts = DOMAIN server.accounts \cup {IdStr(last'.id)}
              /\ DOMAIN server'.objs = DOMAIN server.objs \cup {server'.accounts[IdStr(last'.id)]}
              /\ server'.accounts[IdStr(last'.id)] \notin DOMAIN server.objs
              /\ \A k \in DOMAIN server.accounts : server'.accounts[k] = server.accounts[k]
              /\ \A u \in DOMAIN server.objs : server'.objs[u] = server.objs[u]
              /\ LET account == server'.objs[server'.accounts[IdStr(last'.id)]]
                 IN /\ NumEq(account.balance, Zero)
                    /\ account.auth = "CITIZEN"
                    /\ ~account.frozen
              /\ Len(ledger') = Len(ledger) + 1
              /\ SubSeq(ledger', 1, Len(ledger)) = ledger
              /\ CommandOf(ledger'[Len(ledger')]) = "open"]_vars

\* an account that exists was opened again, after calls that gave it a
\* balance
C20_Witness ==
  /\ last.op = "open_account"
  /\ last.exc = "Account already exists."
  /\ has_account(TheWorld, last.id)
  /\ ~NumEq(BalanceOf(server, get_account(TheWorld, last.id)), Zero)

----------------------------------------------------------------------------
(* Accounts over their life on a LedgerServer: identities are bound by     *)
(* open_account and add_account_alias and unbound by delete_account, while *)
(* recurring transfers run and the program is restarted.                   *)

\* the identity that links itself to an account
AliasNames == {<<"c">>}

\* a new LedgerServer on which a and b were opened and a was given 2
AccountsServers ==
  LET W0 == LedgerServer_init(World(<<>>, <<>>, 0), 3, "g1")
      Ws1 == LedgerServer_open_account(W0, <<"a">>, "u1")
      Ws2 == Then(Ws1, LAMBDA W : LedgerServer_open_account(W, <<"b">>, "u2"))
  IN Then(Ws2, LAMBDA W : LedgerServer_print_money(W, Government, "u1", PyInt(2)))

InitAccounts ==
  /\ \E W \in AccountsServers :
       /\ server = W.server
       /\ ledger = W.ledger
       /\ now = W.now
  /\ last = [op |-> "print_money", exc |-> None]
  /\ hist = [ops |-> 0]

\* the identities that resolve to an account
Bound(s) == {id \in Names \cup AliasNames : IdStr(id) \in DOMAIN s.accounts}

AcctCounted == Running /\ hist.ops < MaxAccountOps /\ hist' = [ops |-> hist.ops + 1]

AcctOpenAccount ==
  /\ AcctCounted
  /\ \E id \in Names \cup AliasNames, uuid4 \in {"u3"} \ DOMAIN server.objs :
       \E W \in LedgerServer_open_account(TheWorld, id, uuid4) :
         Becomes(W, [op |-> "open_account", id |-> id, exc |-> None])

\* add_account_alias as process_add_alias calls it: for an identity that
\* has no account yet
AcctAddAlias ==
  /\ AcctCounted
  /\ \E id \in Bound(server), alias_id \in AliasNames :
       /\ ~has_account(TheWorld, alias_id)
       /\ \E W \in LedgerServer_add_account_alias(TheWorld, get_account(TheWorld, id), alias_id) :
            Becomes(W, [op |-> "add_account_alias", id |-> alias_id, exc |-> None])

AcctDeleteAccount ==
  /\ AcctCounted
  /\ \E id \in Names \cup AliasNames :
       \E W \in LedgerServer_delete_account(TheWorld, Government, id) :
         Becomes(W, [op |-> "delete_account", id |-> id,
                     account |-> IF has_account(TheWorld, id) THEN get_account(TheWorld, id) ELSE None,
                     before |-> server.recurring_transfers, ret |-> W.ret, exc |-> None])

AcctCreateRecurringTransfer ==
  /\ AcctCounted
  /\ \E src \in Bound(server), dst \in Bound(server), tick_count \in TickCounts,
        transfer_id \in TransferIds :
       /\ get_account(TheWorld, src) # get_account(TheWorld, dst)
       /\ \E W \in LedgerServer_create_recurring_transfer(
                     TheWorld, src, get_account(TheWorld, src), get_account(TheWorld, dst),
                     Fraction(tick_count, 1), tick_count, transfer_id) :
            Becomes(W, [op |-> "create_recurring_transfer", id |-> transfer_id, exc |-> None])

AcctTick ==
  /\ AcctCounted
  /\ \E W \in LedgerServer_notify_tick_elapsed(TheWorld, <<>>) :
       Becomes(W, [op |-> "notify_tick_elapsed", exc |-> None])

\* a fresh program run on the ledger file as it is
AcctRestart ==
  /\ AcctCounted
  /\ Becomes(LedgerServer_init(World(<<>>, ledger, now), server.leading_zero_count, "g2"),
             [op |-> "__init__", exc |-> None])

NextAccounts ==
  \/ AcctOpenAccount
  \/ AcctAddAlias
  \/ AcctDeleteAccount
  \/ AcctCreateRecurringTransfer
  \/ AcctTick
  \/ AcctRestart

SpecAccounts == InitAccounts /\ [][NextAccounts]_vars


\* the account objects other than the government's
CitizenAccounts(s) == DOMAIN s.objs \ {s.gov_account}

C22_DeleteAccount ==
  [][(last'.op = "delete_account" /\ last'.account # None) =>
       /\ last'.exc = None
       /\ last'.ret = TRUE
       /\ ~has_account(World(server', ledger', now'), last'.id)
       /\ \A i \in 1..Len(server'.recurring_transfers) :
            /\ server'.recurring_transfers[i].source # last'.account
            /\ server'.recurring_transfers[i].destination # last'.account]_vars

\* an account that was an end of a recurring transfer was deleted
C22_Witness ==
  /\ last.op = "delete_account"
  /\ last.exc = None
  /\ last.account # None
  /\ \E i \in 1..Len(last.before) :
       last.before[i].source = last.account \/ last.before[i].destination = last.account

\* the recurring transfers a server lists, with what remains of them
ActiveTransfers(s) ==
  {<<s.recurring_transfers[i].id, s.recurring_transfers[i].remaining_amount>> :
     i \in 1..Len(s.recurring_transfers)}

\* C30: a server constructed on the ledger a live server wrote lists the
\* recurring transfers that live server listed, with the same remaining
\* amounts; a transfer the live server had removed as finished is not
\* listed.
C30_ReplayedTransfers ==
  [][(Running /\ last'.op = "__init__" /\ last'.exc = None) =>
       ActiveTransfers(server') = ActiveTransfers(server)]_vars


----------------------------------------------------------------------------
(* Printing and removing money on a LedgerServer: print_money and          *)
(* remove_funds called with amounts of either sign, and the print-money    *)
(* command of the command layer (src/src/commands.py).                     *)

\* the amounts callers ask for: negative, zero and positive
MoneyAmounts == {Fraction(0 - 1, 1), Fraction(0, 1), Fraction(1, 1)}

\* parse_print_money(message): <<>> for None, else <<amount, beneficiary>>
parse_print_money(message) ==
  LET body == split(message)
  IN IF Len(body) # 3 THEN <<>>
     ELSE IF ~ParseInt(body[2]).ok THEN <<>>
     ELSE <<ParseInt(body[2]).val, parse_account_id(body[3])>>

\* server.print_money(...): the method of the object's class
print_money(W, author, account, amount) ==
  IF W.server.cls = "LedgerServer" THEN LedgerServer_print_money(W, author, account, amount)
  ELSE {InMemoryServer_print_money(W, author, account, amount)}

\* process_print_money(author, message, server): like process_authorization
\* it hands the server the author's account object as the author
process_print_money(W, author, message) ==
  IF ~is_authorized(W, author, "ADMIN") THEN {Raise(W, "CommandException")}
  ELSE
    LET author_account == get_account(W, author)
        parsed == parse_print_money(message)
    IN IF parsed = <<>> THEN {Raise(W, "CommandException")}
       ELSE IF ~is_account(W, parsed[2]) THEN {Raise(W, "CommandException")}
       ELSE UNION {{Return(W2, "Money printed successfully.") :
                      W2 \in print_money(W, printed, get_account(W, parsed[2]), PyInt(parsed[1]))} :
                   printed \in ObjectStr(author_account)}

PrintMoneyMessages ==
  {"print-money 20 a", "print-money -20 a", "print-money 0 b", "print-money a 20", "print-money 20 c"}

InitMoney ==
  /\ \E W \in AccountsServers :
       /\ server = W.server
       /\ ledger = W.ledger
       /\ now = W.now
  /\ last = [op |-> "__init__", exc |-> None]
  /\ hist = [ops |-> 0]

MoneyCounted == hist.ops < MaxMoneyOps /\ hist' = [ops |-> hist.ops + 1]

MoneyPrintMoney ==
  /\ MoneyCounted
  /\ \E id \in OpenCitizens, amount \in MoneyAmounts :
       \E W \in LedgerServer_print_money(TheWorld, Government, get_account(TheWorld, id), amount) :
         Becomes(W, [op |-> "print_money", account |-> get_account(TheWorld, id), amount |-> amount,
                     exc |-> None])

MoneyRemoveFunds ==
  /\ MoneyCounted
  /\ \E id \in OpenCitizens, amount \in MoneyAmounts :
       \E W \in LedgerServer_remove_funds(TheWorld, Government, get_account(TheWorld, id), amount) :
         Becomes(W, [op |-> "remove_funds", account |-> get_account(TheWorld, id), amount |-> amount,
                     exc |-> None])

\* the print-money command, sent by the government (a DEVELOPER) or by the
\* citizen a
MoneyProcessPrintMoney ==
  /\ MoneyCounted
  /\ \E author \in {Government, <<"a">>}, message \in PrintMoneyMessages :
       \E W \in process_print_money(TheWorld, author, message) :
         Becomes(W, [op |-> "process_print_money", author |-> author, message |-> message,
                     exc |-> None])

NextMoney ==
  \/ MoneyPrintMoney
  \/ MoneyRemoveFunds
  \/ MoneyProcessPrintMoney

SpecMoney == InitMoney /\ [][NextMoney]_vars

\* the balances of all accounts, by uuid
Balances(s) == [u \in DOMAIN s.objs |-> s.objs[u].balance]

\* C23: print_money and remove_funds with an amount <= 0 are rejected and
\* leave every balance as it was; with a positive amount print_money raises
\* and remove_funds lowers the balance of the target by exactly the amount
\* and no other balance changes.  The print-money command with an amount
\* <= 0 changes no balance either.
C23_PositiveAmountRequired ==
  [][/\ last'.op \in {"print_money", "remove_funds"} =>
          IF NumLe(last'.amount, Zero)
            THEN last'.exc # None /\ Balances(server') = Balances(server)
            ELSE /\ last'.exc = None
                 /\ \A u \in DOMAIN server.objs :
                      NumEq(server'.objs[u].balance,
                            IF u # last'.account THEN server.objs[u].balance
                            ELSE IF last'.op = "print_money"
                              THEN NumAdd(server.objs[u].balance, last'.amount)
                              ELSE NumSub(server.objs[u].balance, last'.amount))
     /\ (/\ last'.op = "process_print_money"
         /\ parse_print_money(last'.message) # <<>>
         /\ parse_print_money(last'.message)[1] <= 0) =>
          Balances(server') = Balances(server)]_vars


----------------------------------------------------------------------------
(* Proxies on a LedgerServer: add_proxy and remove_proxy, the proxy        *)
(* command of src/src/bot_commands.py that runs a command as another       *)
(* account, and restarts.                                                  *)

\* get_proxies() of the account an identity resolves to
get_proxies(W, account) == W.server.objs[account].proxies

\* commands.verify_proxy(author, account, signature, command, server) with
\* no signature: the author's account is a registered proxy of the account
verify_proxy(W, author, account, signature, command) ==
  /\ has_account(W, author)
  /\ has_account(W, account)
  /\ signature = None
  /\ get_account(W, author) \in get_proxies(W, get_account(W, account))

\* commands.transfer(author, source, destination, amount, server)
commands_transfer(W, author, source, destination, amount) ==
  IF ~has_account(W, author) \/ ~has_account(W, source) \/ ~has_account(W, destination)
    THEN {Raise(W, "AccountCommandException")}
  ELSE IF /\ get_account(W, author) # get_account(W, source)
          /\ Authorization[get_authorization(W, get_account(W, author))] < Authorization["ADMIN"]
    THEN {Raise(W, "UnauthorizedCommandException")}
  ELSE IF ~can_transfer(W, get_account(W, source), get_account(W, destination), amount)
    THEN {Raise(W, "ValueCommandException")}
  ELSE transfer(W, author, get_account(W, source), get_account(W, destination), amount)

\* _transfer(author, amount, destination, rest, server)
_transfer(W, author, amount, destination, rest) ==
  {Return(W1, "Transferred") : W1 \in commands_transfer(W, author, author, destination, amount)}

\* run_command(author, message, server) for the messages of the transfer
\* command; the exceptions of the command layer become replies
run_command(W, author, message) ==
  LET words == split(message)
  IN IF words = <<>> THEN {Raise(W, "IndexError")}
     ELSE IF words[1] # "transfer" THEN {Return(W, "No such command: " \o words[1])}
     ELSE IF Len(words) < 3 \/ ~ParseInt(words[2]).ok THEN {Return(W, "Error")}
     ELSE {IF W1.exc = "ValueCommandException" THEN Return(W, "Invalid argument")
           ELSE IF W1.exc = "AccountCommandException" THEN Return(W, "Invalid account")
           ELSE IF W1.exc = "UnauthorizedCommandException" THEN Return(W, "Unauthorized command")
           ELSE W1 :
           W1 \in _transfer(W, author, Fraction(ParseInt(words[2]).val, 1),
                            parse_account_id(words[3]), join(SubSeq(words, 4, Len(words))))}

\* _proxy(author, account, command, rest, server)
_proxy(W, author, account, command, rest) ==
  IF verify_proxy(W, author, account, None, command \o " " \o rest)
    THEN run_command(W, account, command \o " " \o rest)
    ELSE {Return(W, "Unauthorized proxy")}

InitProxy ==
  /\ \E W \in AccountsServers :
       /\ server = W.server
       /\ ledger = W.ledger
       /\ now = W.now
  /\ last = [op |-> "__init__", exc |-> None]
  /\ hist = [ops |-> 0, pair |-> <<>>, adds |-> 0, removed_after |-> 0, ran |-> FALSE,
            granted |-> {}]

ProxyCounted == Running /\ hist.ops < MaxProxyOps

\* add_proxy: account becomes a proxy of proxied_account
ProxyAddProxy ==
  /\ ProxyCounted
  /\ \E id \in OpenCitizens, proxied_id \in OpenCitizens :
       LET account == get_account(TheWorld, id)
           proxied_account == get_account(TheWorld, proxied_id)
       IN /\ \E W \in LedgerServer_add_proxy(TheWorld, Government, account, proxied_account) :
               Becomes(W, [op |-> "add_proxy", account |-> account,
                           proxied_account |-> proxied_account, exc |-> None])
          /\ hist' = [hist EXCEPT !.ops = @ + 1, !.pair = <<account, proxied_account>>,
                                  !.adds = IF hist.pair = <<account, proxied_account>> THEN @ + 1 ELSE 1,
                                  !.granted = @ \cup {<<account, proxied_account>>}]

ProxyRemoveProxy ==
  /\ ProxyCounted
  /\ \E id \in OpenCitizens, proxied_id \in OpenCitizens :
       LET account == get_account(TheWorld, id)
           proxied_account == get_account(TheWorld, proxied_id)
       IN /\ \E W \in LedgerServer_remove_proxy(TheWorld, Government, account, proxied_account) :
               Becomes(W, [op |-> "remove_proxy", account |-> account,
                           proxied_account |-> proxied_account, ret |-> W.ret, exc |-> None])
          /\ hist' = [hist EXCEPT !.ops = @ + 1, !.pair = <<>>, !.adds = 0,
                                  !.removed_after = IF hist.pair = <<account, proxied_account>>
                                                      THEN hist.adds ELSE 0,
                                  !.granted = @ \ {<<account, proxied_account>>}]

\* the proxy command, sent by author to run a transfer as account
ProxyCommand ==
  /\ ProxyCounted
  /\ \E author \in Names, account \in OpenCitizens, rest \in {"1 b", "1 a"} :
       \E W \in _proxy(TheWorld, author, account, "transfer", rest) :
         /\ Becomes(W, [op |-> "proxy", author |-> author, account |-> account, rest |-> rest,
                        ret |-> W.ret, exc |-> None])
         /\ hist' = [hist EXCEPT !.ops = @ + 1, !.ran = @ \/ W.server # server]

\* a fresh program run on the ledger file as it is
ProxyRestart ==
  /\ ProxyCounted
  /\ Becomes(LedgerServer_init(World(<<>>, ledger, now), server.leading_zero_count, "g2"),
             [op |-> "__init__", exc |-> None])
  /\ hist' = [hist EXCEPT !.ops = @ + 1]

NextProxy ==
  \/ ProxyAddProxy
  \/ ProxyRemoveProxy
  \/ ProxyCommand
  \/ ProxyRestart

SpecProxy == InitProxy /\ [][NextProxy]_vars

\* the proxy sets of all accounts, by uuid
Proxies(s) == [u \in DOMAIN s.objs |-> s.objs[u].proxies]

\* C24: the proxies of an account are a set: add_proxy(author, account,
\* proxied_account) leaves proxied_account with its earlier proxies and
\* account, so that making the same grant again changes nothing, and
\* remove_proxy leaves it with its earlier proxies less account, however
\* often the grant was made; no other account's proxies change, and a
\* server constructed on the ledger has the same proxy sets.
C24_ProxiesAreASet ==
  [][/\ (last'.op = "add_proxy" /\ last'.exc = None) =>
          /\ Proxies(server') = [Proxies(server) EXCEPT ![last'.proxied_account] = @ \cup {last'.account}]
          /\ last'.account \in get_proxies(TheWorld, last'.proxied_account) =>
               [server' EXCEPT !.last_hash = server.last_hash] = server
     /\ (last'.op = "remove_proxy" /\ last'.exc = None) =>
          Proxies(server') = [Proxies(server) EXCEPT ![last'.proxied_account] = @ \ {last'.account}]
     /\ (Running /\ last'.op = "__init__" /\ last'.exc = None) =>
          \A u \in DOMAIN server.objs \ {server.gov_account} :
            server'.objs[u].proxies = server.objs[u].proxies]_vars

\* a grant that was made three times in a row was removed by one
\* remove_proxy
C24_Witness ==
  /\ last.op = "remove_proxy"
  /\ last.exc = None
  /\ hist.removed_after = 3
  /\ last.account \notin get_proxies(TheWorld, last.proxied_account)

\* C25: remove_proxy(author, account, proxied_account) raises nothing,
\* returns False when account was not a proxy of proxied_account and True
\* when it was, and leaves account outside the proxies of proxied_account.
C25_RemoveProxyReports ==
  [][last'.op = "remove_proxy" =>
       /\ last'.exc = None
       /\ last'.ret = (last'.account \in get_proxies(TheWorld, last'.proxied_account))
       /\ last'.account \notin server'.objs[last'.proxied_account].proxies]_vars

\* the reply of the proxy command when the author is no proxy
Rejected == last'.ret = "Unauthorized proxy" /\ last'.exc = None

----------------------------------------------------------------------------
(* Linking identities: the request-alias and add-alias commands of         *)
(* src/src/commands.py.  A key pair is known by the name of its public     *)
(* key; a signature is the text only the holder of the private key can     *)
(* make for a message, and verifies under that key and message alone.      *)

\* str.strip()
strip(s) ==
  LET solid == {i \in 1..Len(s) : SubSeq(s, i, i) \notin Whitespace}
  IN IF solid = {} THEN ""
     ELSE SubSeq(s, CHOOSE i \in solid : \A j \in solid : i <= j,
                    CHOOSE i \in solid : \A j \in solid : i >= j)

\* what DSS.new(key, 'fips-186-3').sign makes of the digest of message
Signature(key, message) == "sig." \o key \o "." \o message

\* sign_message(message, key)
sign_message(message, key) == b64encode(Signature(key, strip(message)))

list_public_keys(W, account) == W.server.objs[account].public_keys

\* an is_signed_by that accepts a signature made with a registered key on
\* any message
is_signed_by_any_message(W, account, message, base64_signature) ==
  \E i \in 1..Len(list_public_keys(W, account)) :
    startswith(b64decode(base64_signature).val, Signature(list_public_keys(W, account)[i], ""))

\* is_signed_by(account, message, base64_signature), for a signature that
\* b64decode accepts
is_signed_by(W, account, message, base64_signature) ==
  \E i \in 1..Len(list_public_keys(W, account)) :
    b64decode(base64_signature).val = Signature(list_public_keys(W, account)[i], strip(message))

\* self.add_public_key(...), self.add_account_alias(...): the methods of the
\* object's class
add_public_key(W, account, key) ==
  IF W.server.cls = "LedgerServer" THEN LedgerServer_add_public_key(W, account, key)
  ELSE {InMemoryServer_add_public_key(W, account, key)}

add_account_alias(W, account, alias_id) ==
  IF W.server.cls = "LedgerServer" THEN LedgerServer_add_account_alias(W, account, alias_id)
  ELSE {InMemoryServer_add_account_alias(W, account, alias_id)}

\* process_request_alias(author, message, server); key is the pair that
\* ECC.generate draws, and the reply is given by the code it carries
process_request_alias(W, author, message, key) ==
  IF ~is_account(W, author) THEN {Raise(W, "CommandException")}
  ELSE
    LET account == get_account(W, author)
        split_msg == split(message)
    IN IF Len(split_msg) # 2 THEN {Raise(W, "CommandException")}
       ELSE IF has_account(W, parse_account_id(split_msg[2])) THEN {Raise(W, "CommandException")}
       ELSE {Return(W1, sign_message(IdStr(parse_account_id(split_msg[2])), key)) :
               W1 \in add_public_key(W, account, key)}

\* process_add_alias(author, message, server)
process_add_alias(W, author, message) ==
  IF has_account(W, author) THEN {Raise(W, "CommandException")}
  ELSE
    LET split_msg == split(message)
    IN IF Len(split_msg) # 3 THEN {Raise(W, "CommandException")}
       ELSE IF ~is_account(W, parse_account_id(split_msg[2])) THEN {Raise(W, "CommandException")}
       ELSE IF ~b64decode(split_msg[3]).ok THEN {Raise(W, "CommandException")}
       ELSE IF is_signed_by(W, get_account(W, parse_account_id(split_msg[2])), IdStr(author), split_msg[3])
         THEN {Return(W1, "Alias set up successfully.") :
                 W1 \in add_account_alias(W, get_account(W, parse_account_id(split_msg[2])), author)}
       ELSE {Raise(W, "CommandException")}

\* identities without an account, and the key pairs ECC.generate can draw
Strangers == {<<"c">>, <<"d">>}

KeyPool == {"k1", "k2"}

\* tokens that no request-alias made: base64 of other bytes, and no base64
GarbageTokens == {b64encode("howdy"), "howdy"}

\* the keys registered to some account
KeysInUse(s) == UNION {{s.objs[u].public_keys[i] : i \in 1..Len(s.objs[u].public_keys)} : u \in DOMAIN s.objs}

InitAlias ==
  /\ \E W \in AccountsServers :
       /\ server = W.server
       /\ ledger = W.ledger
       /\ now = W.now
  /\ last = [op |-> "__init__", exc |-> None]
  /\ hist = [ops |-> 0, issued |-> {}]

AliasCounted == Running /\ hist.ops < MaxAliasOps

\* request-alias NAME, sent by an identity; the code of the reply is kept
\* with the account it was made by and the identity it was made for
AliasRequestAlias ==
  /\ AliasCounted
  /\ \E author \in Names \cup Strangers, alias \in Names \cup Strangers, key \in KeyPool \ KeysInUse(server) :
       \E W \in process_request_alias(TheWorld, author, "request-alias " \o IdStr(alias), key) :
         /\ Becomes(W, [op |-> "request_alias", author |-> author, alias |-> alias,
                        ret |-> W.ret, exc |-> None])
         /\ hist' = [hist EXCEPT !.ops = @ + 1,
                       !.issued = IF W.exc = None
                                    THEN @ \cup {[token |-> W.ret, alias |-> alias,
                                                  account |-> get_account(TheWorld, author)]}
                                    ELSE @]

\* add-alias NAME TOKEN, sent by an identity with a code that was handed
\* out or with garbage
AliasAddAlias ==
  /\ AliasCounted
  /\ \E author \in Names \cup Strangers, aliased \in Names \cup Strangers,
        token \in {t.token : t \in hist.issued} \cup GarbageTokens :
       \E W \in process_add_alias(TheWorld, author, "add-alias " \o IdStr(aliased) \o " " \o token) :
         /\ Becomes(W, [op |-> "add_alias", author |-> author, aliased |-> aliased, token |-> token,
                        ret |-> W.ret, exc |-> None])
         /\ hist' = [hist EXCEPT !.ops = @ + 1]

AliasRestart ==
  /\ AliasCounted
  /\ Becomes(LedgerServer_init(World(<<>>, ledger, now), server.leading_zero_count, "g2"),
             [op |-> "__init__", exc |-> None])
  /\ hist' = [hist EXCEPT !.ops = @ + 1]

NextAlias ==
  \/ AliasRequestAlias
  \/ AliasAddAlias
  \/ AliasRestart

SpecAlias == InitAlias /\ [][NextAlias]_vars

\* the add-alias of this step presents a code that the account the name
\* resolves to has made for the sender
ProvesControl ==
  /\ ~has_account(TheWorld, last'.author)
  /\ has_account(TheWorld, last'.aliased)
  /\ \E t \in hist.issued :
       /\ t.token = last'.token
       /\ t.alias = last'.author
       /\ t.account = get_account(TheWorld, last'.aliased)

\* C26: add-alias sent by identity N with the name of account A and a token
\* links N to A exactly when N resolves to no account, the name resolves to
\* A and the token is a code that A's request-alias made for N: then N
\* resolves to A and nothing else in the account store changes; in every
\* other case - garbage, or a code made for another identity or by another
\* account - the command fails and the server and the ledger are unchanged.
C26_AliasLinking ==
  [][last'.op = "add_alias" =>
       IF ProvesControl
         THEN /\ last'.exc = None
              /\ server'.accounts = (IdStr(last'.author) :> get_account(TheWorld, last'.aliased)) @@ server.accounts
              /\ server'.objs = server.objs
         ELSE /\ last'.exc = "CommandException"
              /\ server' = server
              /\ ledger' = ledger]_vars

\* d has sent add-alias with the code that a's account made for c, after c
\* was linked with it, and is not linked
C26_Witness ==
  /\ last.op = "add_alias"
  /\ last.author = <<"d">>
  /\ last.exc = "CommandException"
  /\ has_account(TheWorld, last.aliased)
  /\ \E t \in hist.issued : t.token = last.token /\ t.alias = <<"c">>
                            /\ t.account = get_account(TheWorld, last.aliased)
  /\ has_account(TheWorld, <<"c">>)
  /\ ~has_account(TheWorld, <<"d">>)


----------------------------------------------------------------------------
(* What the operations of a LedgerServer write and what a later start      *)
(* makes of it: every operation that appends an entry, restarts, and a     *)
(* ledger that another writer has sealed an entry onto.                    *)

\* the commands _read_ledger has a branch for
RecognizedCommands ==
  {"open", "transfer", "authorize", "set-frozen", "print-money", "remove-funds",
   "perform-recurring-transfer", "create-recurring-transfer", "add-public-key",
   "add-proxy", "remove-proxy", "add-alias", "tick", "delete-account",
   "add-tax-bracket", "remove-tax-bracket", "toggle-auto-tax", "force-tax", "mark-public"}

\* entries of commands this program does not know, as a later version of it
\* or another tool would seal them
ForeignEntries == {<<"mint", "a", "5">>, <<"Open", "c", "u3">>}

\* the lines of a ledger whose command _read_ledger has no branch for
Unrecognized(l) == {i \in 1..Len(l) : CommandOf(l[i]) \notin RecognizedCommands}

InitEntries ==
  /\ \E W \in AccountsServers :
       /\ server = W.server
       /\ ledger = W.ledger
       /\ now = W.now
  /\ last = [op |-> "__init__", exc |-> None]
  /\ hist = [ops |-> 0, foreign |-> FALSE, restarts |-> 0]

\* one more call on a running server
EntryCounted == Running /\ hist.ops < MaxEntryOps /\ hist' = [hist EXCEPT !.ops = @ + 1]

EntryOpenAccount ==
  /\ EntryCounted
  /\ \E id \in AliasNames :
       \E W \in LedgerServer_open_account(TheWorld, id, "u3") :
         Becomes(W, [op |-> "open_account", exc |-> None])

EntryAddAlias ==
  /\ EntryCounted
  /\ \E id \in Bound(server), alias_id \in AliasNames :
       /\ ~has_account(TheWorld, alias_id)
       /\ \E W \in LedgerServer_add_account_alias(TheWorld, get_account(TheWorld, id), alias_id) :
            Becomes(W, [op |-> "add_account_alias", exc |-> None])

EntryAuthorize ==
  /\ EntryCounted
  /\ \E id \in Bound(server), auth_level \in {"ADMIN", "CITIZEN"} :
       \E W \in LedgerServer_authorize(TheWorld, Government, get_account(TheWorld, id), auth_level) :
         Becomes(W, [op |-> "authorize", exc |-> None])

EntrySetFrozen ==
  /\ EntryCounted
  /\ \E id \in Bound(server), frozen \in BOOLEAN :
       \E W \in LedgerServer_set_frozen(TheWorld, Government, get_account(TheWorld, id), frozen) :
         Becomes(W, [op |-> "set_frozen", exc |-> None])

EntryMarkPublic ==
  /\ EntryCounted
  /\ \E id \in Bound(server), new_public \in BOOLEAN :
       \E W \in LedgerServer_mark_public(TheWorld, id, get_account(TheWorld, id), new_public) :
         Becomes(W, [op |-> "mark_public", exc |-> None])

EntryPrintMoney ==
  /\ EntryCounted
  /\ \E id \in Bound(server) :
       \E W \in LedgerServer_print_money(TheWorld, Government, get_account(TheWorld, id), PyInt(1)) :
         Becomes(W, [op |-> "print_money", exc |-> None])

EntryRemoveFunds ==
  /\ EntryCounted
  /\ \E id \in Bound(server) :
       \E W \in LedgerServer_remove_funds(TheWorld, Government, get_account(TheWorld, id), PyInt(1)) :
         Becomes(W, [op |-> "remove_funds", exc |-> None])

EntryTransfer ==
  /\ EntryCounted
  /\ \E src \in Bound(server), dst \in Bound(server) :
       \E W \in LedgerServer_transfer(TheWorld, src, get_account(TheWorld, src), get_account(TheWorld, dst), PyInt(1)) :
         Becomes(W, [op |-> "transfer", exc |-> None])

EntryCreateRecurringTransfer ==
  /\ EntryCounted
  /\ \E src \in Bound(server), dst \in Bound(server) :
       /\ get_account(TheWorld, src) # get_account(TheWorld, dst)
       /\ \E W \in LedgerServer_create_recurring_transfer( TheWorld, src, get_account(TheWorld, src), get_account(TheWorld, dst), Fraction(1, 1), 1, "t1") :
            Becomes(W, [op |-> "create_recurring_transfer", exc |-> None])

\* a tick; it makes the installments that are due and logs them
EntryTick ==
  /\ EntryCounted
  /\ \E W \in LedgerServer_notify_tick_elapsed(TheWorld, <<>>) :
       Becomes(W, [op |-> "notify_tick_elapsed", exc |-> None])

EntryAddPublicKey ==
  /\ EntryCounted
  /\ \E id \in Bound(server), key \in {"k1"} :
       \E W \in LedgerServer_add_public_key(TheWorld, get_account(TheWorld, id), key) :
         Becomes(W, [op |-> "add_public_key", exc |-> None])

EntryAddProxy ==
  /\ EntryCounted
  /\ \E id \in Bound(server), proxied_id \in Bound(server) :
       \E W \in LedgerServer_add_proxy(TheWorld, Government, get_account(TheWorld, id), get_account(TheWorld, proxied_id)) :
         Becomes(W, [op |-> "add_proxy", exc |-> None])

EntryRemoveProxy ==
  /\ EntryCounted
  /\ \E id \in Bound(server), proxied_id \in Bound(server) :
       \E W \in LedgerServer_remove_proxy(TheWorld, Government, get_account(TheWorld, id), get_account(TheWorld, proxied_id)) :
         Becomes(W, [op |-> "remove_proxy", exc |-> None])

EntryDeleteAccount ==
  /\ EntryCounted
  /\ \E id \in Names :
       \E W \in LedgerServer_delete_account(TheWorld, Government, id) :
         Becomes(W, [op |-> "delete_account", exc |-> None])

EntryAddTaxBracket ==
  /\ EntryCounted
  /\ \E end \in {<<>>, <<PyInt(5)>>} :
       \E W \in LedgerServer_add_tax_bracket(TheWorld, Government, PyInt(0), end, PyInt(10), "t") :
         Becomes(W, [op |-> "add_tax_bracket", exc |-> None])

EntryRemoveTaxBracket ==
  /\ EntryCounted
  /\ \E W \in LedgerServer_remove_tax_bracket(TheWorld, Government, "t") :
       Becomes(W, [op |-> "remove_tax_bracket", exc |-> None])

EntryToggleAutoTax ==
  /\ EntryCounted
  /\ \E W \in LedgerServer_toggle_auto_tax(TheWorld, Government) :
       Becomes(W, [op |-> "toggle_auto_tax", exc |-> None])

EntryForceTax ==
  /\ EntryCounted
  /\ \E W \in LedgerServer_force_tax(TheWorld, Government) :
       Becomes(W, [op |-> "force_tax", exc |-> None])

EntryAddExemptPrefix ==
  /\ EntryCounted
  /\ \E W \in LedgerServer_add_exempt_prefix(TheWorld, Government, "@", "t") :
       Becomes(W, [op |-> "add_exempt_prefix", exc |-> None])

\* the program is started again on the ledger it has written
EntryRestart ==
  /\ Running
  /\ hist.restarts < MaxRestarts
  /\ Becomes(LedgerServer_init(World(<<>>, ledger, now), server.leading_zero_count, "g2"),
             [op |-> "__init__", exc |-> None])
  /\ hist' = [hist EXCEPT !.restarts = @ + 1]

\* the program is stopped, another writer seals an entry of its own onto
\* the ledger, and the program is started on the result
EntryForeignRestart ==
  /\ Running
  /\ hist.restarts < MaxRestarts
  /\ \E elems \in ForeignEntries :
       \E W \in _ledger_write(TheWorld, elems, <<>>) :
         Becomes(LedgerServer_init(World(<<>>, W.ledger, W.now), server.leading_zero_count, "g2"),
                 [op |-> "__init__", exc |-> None])
  /\ hist' = [hist EXCEPT !.foreign = TRUE, !.restarts = @ + 1]

NextEntries ==
  \/ EntryOpenAccount
  \/ EntryAddAlias
  \/ EntryAuthorize
  \/ EntrySetFrozen
  \/ EntryMarkPublic
  \/ EntryPrintMoney
  \/ EntryRemoveFunds
  \/ EntryTransfer
  \/ EntryCreateRecurringTransfer
  \/ EntryTick
  \/ EntryAddPublicKey
  \/ EntryAddProxy
  \/ EntryRemoveProxy
  \/ EntryDeleteAccount
  \/ EntryAddTaxBracket
  \/ EntryRemoveTaxBracket
  \/ EntryToggleAutoTax
  \/ EntryForceTax
  \/ EntryAddExemptPrefix
  \/ EntryRestart
  \/ EntryForeignRestart

SpecEntries == InitEntries /\ [][NextEntries]_vars

\* C28: a start on a ledger that holds an entry whose command is not one of
\* the recognized commands ends in an exception: the constructor returns no
\* server, whoever wrote the entry.
C28_UnknownCommandIsFatal ==
  (last.op = "__init__" /\ Unrecognized(ledger) # {}) => last.exc # None

\* a start has stopped at a sealed entry of a command the loader has no
\* branch for
C28_Witness ==
  /\ last.op = "__init__"
  /\ last.exc = "Unknown ledger command"
  /\ hist.foreign
  /\ CommandOf(ledger[Len(ledger)]) \in {"mint", "Open"}

\* C29: every entry a LedgerServer operation appends has a command that
\* replay recognizes and arguments its branch accepts: a start on a ledger
\* that only the program's own operations have written raises nothing.
C29_WrittenLedgersLoad ==
  (last.op = "__init__" /\ ~hist.foreign) => last.exc = None


----------------------------------------------------------------------------
(* Ticks over whatever create_recurring_transfer has registered: totals    *)
(* of either sign and tick counts from 0 on, with auto-tax switched on.    *)

\* the totals and tick counts create_recurring_transfer is called with
AnyTotals == {Fraction(0 - 1, 1), Fraction(0, 1), Fraction(2, 1)}

AnyTickCounts == 0..MaxTicks

AnyTransferIds == {"t1", "t2"}

InitTicks ==
  /\ \E W \in Then(AccountsServers, LAMBDA W1 : LedgerServer_toggle_auto_tax(W1, Government)) :
       /\ server = W.server
       /\ ledger = W.ledger
       /\ now = W.now
  /\ last = [op |-> "toggle_auto_tax", exc |-> None]
  /\ hist = [ops |-> 0]

TicksCounted == hist.ops < MaxTickOps /\ hist' = [ops |-> hist.ops + 1]

TicksCreateRecurringTransfer ==
  /\ TicksCounted
  /\ \E src \in Names, dst \in Names, total_amount \in AnyTotals, tick_count \in AnyTickCounts,
        transfer_id \in AnyTransferIds :
       /\ src # dst
       /\ TransferIndex(TheWorld, transfer_id) = 0
       /\ \E W \in LedgerServer_create_recurring_transfer(
                     TheWorld, src, get_account(TheWorld, src), get_account(TheWorld, dst),
                     total_amount, tick_count, transfer_id) :
            Becomes(W, [op |-> "create_recurring_transfer", id |-> transfer_id,
                        tick_count |-> tick_count, exc |-> None])

TicksTick ==
  /\ TicksCounted
  /\ \E W \in LedgerServer_notify_tick_elapsed(TheWorld, <<>>) :
       Becomes(W, [op |-> "notify_tick_elapsed", exc |-> None])

NextTicks ==
  \/ TicksCreateRecurringTransfer
  \/ TicksTick

SpecTicks == InitTicks /\ [][NextTicks]_vars

\* C31: notify_tick_elapsed raises nothing whatever recurring transfers
\* create_recurring_transfer has accepted (a tick count of 0 and totals of
\* 0 or less included): every tick lowers the tax countdown by one and
\* ends with its tick entry in the ledger.
C31_TickCompletes ==
  [][last'.op = "notify_tick_elapsed" =>
       /\ last'.exc = None
       /\ server'.taxObject.ticks_till_tax_tmp = server.taxObject.ticks_till_tax_tmp - 1
       /\ Len(ledger') > Len(ledger)
       /\ CommandOf(ledger'[Len(ledger')]) = "tick"]_vars

----------------------------------------------------------------------------
(* Opening accounts for identities of every form: the identities are the   *)
(* ones parse_account_id makes of the names users type.                    *)

\* names of plain identities, of a Discord mention and of identities
\* wrapped in one and in two proxies
TypedNames == {"a", "b", "<@1>", "x:a", "b:a", "x:y:b"}

OpenUUIDs == {"u1", "u2", "u3"}

InitOpen ==
  /\ \E uuid4 \in GovernmentUUIDs :
       server = InMemoryServer_init(World([cls |-> "InMemoryServer"], <<>>, 0), uuid4).server
  /\ ledger = <<>>
  /\ now = 0
  /\ last = [op |-> "__init__", exc |-> None]
  /\ hist = [ops |-> 0]

OpenCounted == hist.ops < MaxOpenOps /\ hist' = [ops |-> hist.ops + 1]

\* open_account(parse_account_id(name))
OpenParsedAccount ==
  /\ OpenCounted
  /\ \E name \in TypedNames, uuid4 \in OpenUUIDs \ DOMAIN server.objs :
       LET W == InMemoryServer_open_account(TheWorld, parse_account_id(name), uuid4)
       IN Becomes(W, [op |-> "open_account", id |-> parse_account_id(name),
                      ret |-> W.ret, exc |-> None])

\* has_account(parse_account_id(name))
OpenHasAccount ==
  /\ OpenCounted
  /\ \E name \in TypedNames :
       last' = [op |-> "has_account", id |-> parse_account_id(name),
                ret |-> has_account(TheWorld, parse_account_id(name)), exc |-> None]
  /\ UNCHANGED <<server, ledger, now>>

NextOpen ==
  \/ OpenParsedAccount
  \/ OpenHasAccount

SpecOpen == InitOpen /\ [][NextOpen]_vars

\* C33: after an open_account(id) that returned, for an identity of any
\* form - plain or wrapped in proxies - has_account(id) is true,
\* get_account(id) is the account that was opened, and a second
\* open_account(id) raises.
C33_OpenedAccountIsFound ==
  [][(last'.op = "open_account" /\ last'.exc = None) =>
       LET after == World(server', ledger', now')
       IN /\ has_account(after, last'.id)
          /\ get_account(after, last'.id) = last'.ret
          /\ InMemoryServer_open_account(after, last'.id, "u9").exc # None]_vars


----------------------------------------------------------------------------
(* A sealed ledger whose fields are split differently: a character is      *)
(* moved across the blank between two adjacent fields of a line, which     *)
(* leaves the bytes the digest is computed from as they were.              *)

\* the unannotated ledgers that are sealed and then re-split
ResplitEntries ==
  {<<"1.0 open a u1", "2.0 open a1 u2", "3.0 print-money @government a 12">>,
   <<"1.0 open a u1", "2.0 open a1 u2", "3.0 print-money @government a1 21",
     "4.0 transfer a1 a1 a 13">>}

InitResplit ==
  /\ \E entries \in ResplitEntries, uuid4 \in GovernmentUUIDs :
       \E lines \in create_initial_ledger_entries(entries, 3, EmptyHash) :
         LET W == LedgerServer_init(World(<<>>, lines, StartTime), 3, uuid4)
         IN /\ server = W.server
            /\ ledger = W.ledger
            /\ now = W.now
            /\ last = [op |-> "__init__", exc |-> W.exc]
            /\ hist = [resplits |-> 0, sealed |-> lines, loaded |-> W.server]

\* s with its at-th and (at+1)-th bytes exchanged
Swapped(s, at) ==
  SubSeq(s, 1, at - 1) \o SubSeq(s, at + 1, at + 1) \o SubSeq(s, at, at) \o SubSeq(s, at + 2, Len(s))

\* the blank between two fields of a line changes places with the
\* character before it or after it: the character goes over to the
\* neighbouring field
Resplit ==
  /\ last.exc = None
  /\ hist.resplits < MaxResplits
  /\ \E line \in 1..Len(ledger) : \E at \in 1..(Len(ledger[line].rest) - 1) :
       /\ (SubSeq(ledger[line].rest, at, at) \in Whitespace)
            # (SubSeq(ledger[line].rest, at + 1, at + 1) \in Whitespace)
       /\ Len(split(Swapped(ledger[line].rest, at))) = Len(split(ledger[line].rest))
       /\ ledger' = [ledger EXCEPT ![line].rest = Swapped(@, at)]
       /\ last' = [op |-> "resplit", line |-> line, exc |-> None]
  /\ hist' = [hist EXCEPT !.resplits = @ + 1]
  /\ UNCHANGED <<server, now>>

\* the program is started on the re-split ledger
LoadResplit ==
  /\ last.op = "resplit"
  /\ \E uuid4 \in GovernmentUUIDs :
       Becomes(LedgerServer_init(World(<<>>, ledger, now), 3, uuid4),
               [op |-> "__init__", exc |-> None])
  /\ UNCHANGED hist

NextResplit ==
  \/ Resplit
  \/ LoadResplit

SpecResplit == InitResplit /\ [][NextResplit]_vars

\* C32: the digest binds the boundaries of the fields: a start on a sealed
\* ledger in which a line's fields have been split differently fails with
\* an integrity error.
C32_DigestBindsFieldBoundaries ==
  (last.op = "__init__" /\ hist.resplits > 0 /\ ledger # hist.sealed) => last.exc \in IntegrityErrors


----------------------------------------------------------------------------
(* The difficulty test by itself: has_leading_zeros on every digest of     *)
(* MaxHexDigits hex digits and every count of bits, and the pairs that     *)
(* generate_salt_and_hash hands back.                                      *)

\* the texts of n hex digits
RECURSIVE HexTexts(_)
HexTexts(n) ==
  IF n = 0 THEN {<<>>}
  ELSE {<<HexChars[i]>> \o t : i \in 1..16, t \in HexTexts(n - 1)}

\* int(hex, 16)
RECURSIVE HexNumber(_)
HexNumber(hex) ==
  IF hex = <<>> THEN 0 ELSE 16 * HexNumber(SubSeq(hex, 1, Len(hex) - 1)) + HexVal(hex[Len(hex)])

RECURSIVE Pow2(_)
Pow2(n) == IF n = 0 THEN 1 ELSE 2 * Pow2(n - 1)

\* the first n bits of the digest are zero: as a number it is below
\* 2^(bits - n)
FirstBitsZero(hex, n) == HexNumber(hex) < Pow2(4 * Len(hex) - n)

\* the entries generate_salt_and_hash is given to seal
SealedElements == {<<"1.0", "open", "a", "u1">>, <<"2.0", "tick">>, <<"3.0", "force-tax", "@government">>}

InitZeros ==
  /\ server = [cls |-> "LedgerServer"]
  /\ ledger = <<>>
  /\ now = 0
  /\ last = [op |-> "__init__", exc |-> None]
  /\ hist = NoHistory

\* has_leading_zeros(hexdigest, zero_count), one call per behaviour
ZerosHasLeadingZeros ==
  /\ last.op = "__init__"
  /\ \E hex \in HexTexts(MaxHexDigits), zero_count \in 0..(4 * MaxHexDigits) :
       last' = [op |-> "has_leading_zeros", hex |-> hex, zero_count |-> zero_count,
                ret |-> has_leading_zeros([hex |-> hex], zero_count), exc |-> None]
  /\ UNCHANGED <<server, ledger, now, hist>>

\* generate_salt_and_hash(previous_hash, elements, zero_count), from the
\* empty digest and from the digest of an earlier entry
ZerosGenerateSaltAndHash ==
  /\ last.op = "__init__"
  /\ \E elements \in SealedElements, zero_count \in 0..8,
        previous_hash \in {EmptyHash} \cup {compute_hash(EmptyHash, e) : e \in SealedElements} :
       \E sh \in generate_salt_and_hash(previous_hash, elements, zero_count) :
         last' = [op |-> "generate_salt_and_hash", previous_hash |-> previous_hash,
                  elements |-> elements, zero_count |-> zero_count, ret |-> sh, exc |-> None]
  /\ UNCHANGED <<server, ledger, now, hist>>

NextZeros ==
  \/ ZerosHasLeadingZeros
  \/ ZerosGenerateSaltAndHash

SpecZeros == InitZeros /\ [][NextZeros]_vars

\* C39: has_leading_zeros(hexdigest, n) is true exactly when the first n
\* bits of the digest are zero, for every n from 0 to the number of bits,
\* multiples of 4 or not; and generate_salt_and_hash returns only a salt
\* and the digest of previous digest, salt and elements whose first
\* zero_count bits are zero.
C39_LeadingZeroBits ==
  /\ last.op = "has_leading_zeros" => (last.ret = FirstBitsZero(last.hex, last.zero_count))
  /\ last.op = "generate_salt_and_hash" =>
       /\ last.ret[2] = compute_hash(last.previous_hash, <<last.ret[1]>> \o last.elements)
       /\ FirstBitsZero(last.ret[2].hex, last.zero_count)

\* a digest that begins with three zero bits and a one passes for 3 bits
\* and fails for 4
C39_Witness ==
  /\ last.op = "has_leading_zeros"
  /\ last.hex[1] = "1"
  /\ last.zero_count = 3
  /\ last.ret = TRUE


----------------------------------------------------------------------------
(* Tax brackets registered on a running LedgerServer and by the replay of  *)
(* its ledger.                                                             *)

BracketStarts == {PyInt(0), PyInt(1)}
BracketEnds == {<<>>, <<PyInt(0)>>, <<PyInt(2)>>}
BracketNames == {"s", "t"}

InitBrackets ==
  /\ \E W \in AccountsServers :
       /\ server = W.server
       /\ ledger = W.ledger
       /\ now = W.now
  /\ last = [op |-> "__init__", exc |-> None]
  /\ hist = [ops |-> 0, restarts |-> 0]

BracketsCounted == Running /\ hist.ops < MaxBracketOps /\ hist' = [hist EXCEPT !.ops = @ + 1]

BracketsAddTaxBracket ==
  /\ BracketsCounted
  /\ \E start \in BracketStarts, end \in BracketEnds, name \in BracketNames :
       \E W \in LedgerServer_add_tax_bracket(TheWorld, Government, start, end, PyInt(100), name) :
         Becomes(W, [op |-> "add_tax_bracket", start |-> start, end |-> end, exc |-> None])

BracketsRemoveTaxBracket ==
  /\ BracketsCounted
  /\ \E name \in BracketNames :
       \E W \in LedgerServer_remove_tax_bracket(TheWorld, Government, name) :
         Becomes(W, [op |-> "remove_tax_bracket", exc |-> None])

\* bracket.get_tax(account) for a registered bracket and an account
BracketsGetTax ==
  /\ Running
  /\ \E name \in DOMAIN server.taxObject.tax_brackets, account \in get_accounts(TheWorld) :
       LET bracket == server.taxObject.tax_brackets[name]
           bal == get_balance(TheWorld, account)
       IN last' = [op |-> "get_tax", bracket |-> bracket, bal |-> bal,
                   ret |-> get_tax(bracket, bal), exc |-> None]
  /\ UNCHANGED <<server, ledger, now, hist>>

BracketsRestart ==
  /\ Running
  /\ hist.restarts < MaxRestarts
  /\ Becomes(LedgerServer_init(World(<<>>, ledger, now), server.leading_zero_count, "g2"),
             [op |-> "__init__", exc |-> None])
  /\ hist' = [hist EXCEPT !.restarts = @ + 1]

NextBrackets ==
  \/ BracketsAddTaxBracket
  \/ BracketsRemoveTaxBracket
  \/ BracketsGetTax
  \/ BracketsRestart

SpecBrackets == InitBrackets /\ [][NextBrackets]_vars

\* C40: every registered tax bracket has start <= end when it has an end,
\* whether add_tax_bracket registered it on the running server or the
\* replay of the ledger did, and no bracket's get_tax is negative.
C40_BracketsAreOrdered ==
  Running =>
    /\ \A name \in DOMAIN server.taxObject.tax_brackets :
         LET bracket == server.taxObject.tax_brackets[name]
         IN bracket.end = <<>> \/ NumLe(bracket.start, bracket.end[1])
    /\ last.op = "get_tax" => ~NumLt(last.ret, Zero)


----------------------------------------------------------------------------
(* The two maps of InMemoryServer, accounts (identity to account) and      *)
(* inv_accounts (account to identities), under open_account,               *)
(* add_account_alias and delete_account.                                   *)

Identities == Names \cup AliasNames

InitIdentities ==
  /\ \E W \in {InMemoryServer_init(World([cls |-> "InMemoryServer"], <<>>, StartTime), uuid4) :
               uuid4 \in {"g1"}} :
       /\ server = W.server
       /\ ledger = W.ledger
       /\ now = W.now
  /\ last = [op |-> "__init__", exc |-> None]
  /\ hist = [ops |-> 0]

IdentitiesCounted == hist.ops < MaxIdentityOps /\ hist' = [ops |-> hist.ops + 1]

IdentitiesOpenAccount ==
  /\ IdentitiesCounted
  /\ \E id \in Identities, account_uuid \in AccountUUIDs \ DOMAIN server.objs :
       Becomes(InMemoryServer_open_account(TheWorld, id, account_uuid),
               [op |-> "open_account", id |-> id, exc |-> None])

\* add_account_alias(account, alias_id) for an account of the server
IdentitiesAddAccountAlias ==
  /\ IdentitiesCounted
  /\ \E account \in get_accounts(TheWorld), alias_id \in Identities :
       Becomes(InMemoryServer_add_account_alias(TheWorld, account, alias_id),
               [op |-> "add_account_alias", account |-> account, id |-> alias_id,
                fresh |-> ~has_account(TheWorld, alias_id), exc |-> None])

IdentitiesDeleteAccount ==
  /\ IdentitiesCounted
  /\ \E id \in Identities :
       Becomes(InMemoryServer_delete_account(TheWorld, Government, id),
               [op |-> "delete_account", id |-> id, exc |-> None])

NextIdentities ==
  \/ IdentitiesOpenAccount
  \/ IdentitiesAddAccountAlias
  \/ IdentitiesDeleteAccount

SpecIdentities == InitIdentities /\ [][NextIdentities]_vars

\* the identities get_account_ids lists for an account
Listed(account) == {get_account_ids(TheWorld, account)[i] : i \in DOMAIN get_account_ids(TheWorld, account)}

\* C34: after any sequence of open_account, add_account_alias and
\* delete_account an identity is listed for an account exactly when it
\* resolves to that account, and no identity is listed for two accounts
\* (so all identities listed for one account resolve to the same uuid).
C34_MapsAgree ==
  /\ \A account \in DOMAIN server.inv_accounts : \A id \in Identities \cup {Government} :
       id \in Listed(account) <=> (has_account(TheWorld, id) /\ get_account(TheWorld, id) = account)
  /\ \A a1 \in DOMAIN server.inv_accounts, a2 \in DOMAIN server.inv_accounts :
       a1 # a2 => Listed(a1) \cap Listed(a2) = {}


----------------------------------------------------------------------------
(* commands2.py: the authorization check of the command layer and its      *)
(* transfer command, on a LedgerServer.                                    *)

\* _check_authorization(subject, object, admin_level): "True", or None when
\* neither branch returns
_check_authorization(W, subject, object, admin_level) ==
  IF Authorization[get_authorization(W, subject)] < Authorization[admin_level] THEN "True"
  ELSE IF subject = object THEN "True"
  ELSE None

_assert_authorized(W, subject, object, admin_level) ==
  IF _check_authorization(W, subject, object, admin_level) # "True"
    THEN Raise(W, "UnauthorizedCommandException")
    ELSE Return(W, None)

\* _get_account(account_id, server)
_get_account(W, account_id) ==
  IF ~has_account(W, account_id) THEN Raise(W, "AccountCommandException")
  ELSE Return(W, get_account(W, account_id))

\* commands2.transfer(author, source, destination, amount, server); its
\* call server.transfer(source, destination, amount) lacks the fourth
\* argument of Server.transfer and raises TypeError before the method runs
commands2_transfer(W, author, source, destination, amount) ==
  LET A == _get_account(W, author)
      S == _get_account(W, source)
      D == _get_account(W, destination)
  IN IF A.exc # None THEN A
     ELSE IF S.exc # None THEN S
     ELSE IF D.exc # None THEN D
     ELSE IF _assert_authorized(W, A.ret, S.ret, "ADMIN").exc # None
       THEN _assert_authorized(W, A.ret, S.ret, "ADMIN")
     ELSE IF ~can_transfer(W, S.ret, D.ret, amount) THEN Raise(W, "ValueCommandException")
     ELSE Raise(W, "TypeError")

Commanders == Names \cup AliasNames \cup {Government}

InitCommands2 ==
  /\ \E W \in AccountsServers :
       /\ server = W.server
       /\ ledger = W.ledger
       /\ now = W.now
  /\ last = [op |-> "__init__", exc |-> None]
  /\ hist = [ops |-> 0]

Commands2Counted == hist.ops < MaxCommandOps /\ hist' = [ops |-> hist.ops + 1]

\* the government sets the level of an account
Commands2Authorize ==
  /\ Commands2Counted
  /\ \E id \in Names, auth_level \in AuthNames :
       \E W \in LedgerServer_authorize(TheWorld, Government, get_account(TheWorld, id), auth_level) :
         Becomes(W, [op |-> "authorize", exc |-> None])

Commands2CheckAuthorization ==
  /\ Commands2Counted
  /\ \E subject \in get_accounts(TheWorld), object \in get_accounts(TheWorld) :
       last' = [op |-> "_check_authorization", subject |-> subject, object |-> object,
                ret |-> _check_authorization(TheWorld, subject, object, "ADMIN"), exc |-> None]
  /\ UNCHANGED <<server, ledger, now>>

Commands2Transfer ==
  /\ Commands2Counted
  /\ \E author \in Commanders, source \in Commanders, destination \in Commanders,
        amount \in {PyInt(1), PyInt(3)} :
       Becomes(commands2_transfer(TheWorld, author, source, destination, amount),
               [op |-> "transfer", author |-> author, source |-> source,
                destination |-> destination, amount |-> amount, exc |-> None])

NextCommands2 ==
  \/ Commands2Authorize
  \/ Commands2CheckAuthorization
  \/ Commands2Transfer

SpecCommands2 == InitCommands2 /\ [][NextCommands2]_vars

\* C37: _check_authorization lets a subject operate on an object account
\* only if the subject is ADMIN or higher or is the object account itself,
\* and transfer(author, source, ...) by an author below ADMIN who is not
\* the source raises UnauthorizedCommandException and moves no money.
C37_CommandAuthorization ==
  [][/\ (last'.op = "_check_authorization" /\ last'.ret = "True") =>
          \/ Authorization[get_authorization(TheWorld, last'.subject)] >= Authorization["ADMIN"]
          \/ last'.subject = last'.object
     /\ (/\ last'.op = "transfer"
         /\ has_account(TheWorld, last'.author)
         /\ has_account(TheWorld, last'.source)
         /\ has_account(TheWorld, last'.destination)
         /\ get_account(TheWorld, last'.author) # get_account(TheWorld, last'.source)
         /\ Authorization[get_authorization(TheWorld, get_account(TheWorld, last'.author))]
              < Authorization["ADMIN"]) =>
          /\ last'.exc = "UnauthorizedCommandException"
          /\ Balances(server') = Balances(server)]_vars


----------------------------------------------------------------------------
(* httpapi.py: RequestServer.decrypt_request and its store of used nonces. *)

\* the nonces requests carry
Nonces == 1..MaxNonces

\* RequestServer(server, private_key, max_nonce_count)
RequestServer_init(inner, private_key, nonce_count) ==
  [cls |-> "RequestServer", used_nonces |-> {}, server |-> inner, max_nonce_count |-> nonce_count,
   private_key |-> private_key]

\* a decrypt_request that makes room in a full store by dropping its
\* smallest nonce
decrypt_request_evicting(W, request) ==
  LET used == W.server.used_nonces
      kept == IF Cardinality(used) >= W.server.max_nonce_count
                THEN used \ {CHOOSE n \in used : \A m \in used : n <= m}
                ELSE used
      W1 == [W EXCEPT !.server.used_nonces = kept \cup {request.nonce}]
      inner == World(W.server.server, <<>>, W.now)
  IN IF request.nonce \in used THEN Raise(W, "DecryptionException")
     ELSE IF ~request.mac_ok THEN Raise(W1, "ValueError")
     ELSE IF ~has_account(inner, request.account_id) THEN Raise(W1, "DecryptionException")
     ELSE IF ~\E i \in 1..Len(list_public_keys(inner, get_account(inner, request.account_id))) :
                list_public_keys(inner, get_account(inner, request.account_id))[i] = request.signed_with
       THEN Raise(W1, "DecryptionException")
     ELSE Return(W1, <<get_account(inner, request.account_id), request.reply_key, request.message>>)

\* RequestServer.decrypt_request(encrypted_data) for a request whose
\* header is sealed for this server: nonce is the 32 bytes after the header,
\* mac_ok tells whether decrypt_and_verify accepts the tag, signed_with is
\* the key that signed the plaintext.  random.choice(self.used_nonces) is
\* given a set, which it cannot index: TypeError.
decrypt_request(W, request) ==
  LET used == W.server.used_nonces
      W1 == [W EXCEPT !.server.used_nonces = used \cup {request.nonce}]
      inner == World(W.server.server, <<>>, W.now)
  IN IF request.nonce \in used THEN Raise(W, "DecryptionException")
     ELSE IF Cardinality(used) >= W.server.max_nonce_count THEN Raise(W, "TypeError")
     ELSE IF ~request.mac_ok THEN Raise(W1, "ValueError")
     ELSE IF ~has_account(inner, request.account_id) THEN Raise(W1, "DecryptionException")
     ELSE IF ~\E i \in 1..Len(list_public_keys(inner, get_account(inner, request.account_id))) :
                list_public_keys(inner, get_account(inner, request.account_id))[i] = request.signed_with
       THEN Raise(W1, "DecryptionException")
     ELSE Return(W1, <<get_account(inner, request.account_id), request.reply_key, request.message>>)

\* RequestClient.encrypt_request(request_data) of the account holder, for
\* the nonce generate_nonce drew
encrypt_request(account_id, client_private_key, nonce) ==
  [nonce |-> nonce, mac_ok |-> TRUE, account_id |-> account_id, signed_with |-> client_private_key,
   reply_key |-> "r", message |-> "Hello there!"]

\* what arrives: requests of the account holder, and requests with a
\* changed body, of an unknown account or signed with an unknown key
Requests ==
  UNION {{encrypt_request(<<"a">>, "k1", nonce),
          [encrypt_request(<<"a">>, "k1", nonce) EXCEPT !.mac_ok = FALSE],
          encrypt_request(<<"c">>, "k1", nonce),
          encrypt_request(<<"a">>, "k2", nonce)} : nonce \in Nonces}

\* create_client_and_server(): a server with one account and its key, and
\* a RequestServer in front of it
InitNonces ==
  /\ LET W0 == InMemoryServer_init(World([cls |-> "InMemoryServer"], <<>>, StartTime), "g1")
         W1 == InMemoryServer_open_account(W0, <<"a">>, "u1")
         W2 == InMemoryServer_add_public_key(W1, "u1", "k1")
     IN /\ server = RequestServer_init(W2.server, "priv", max_nonce_count)
        /\ now = W2.now
  /\ ledger = <<>>
  /\ last = [op |-> "__init__", exc |-> None]
  /\ hist = [ops |-> 0, accepted |-> {}, returned |-> {}, between |-> [n \in Nonces |-> 0]]

\* one request handled; the history keeps the nonces that entered the
\* store, those whose request was returned to the caller, and for every
\* nonce in the store the number of requests handled since it entered
NoncesDecryptRequest ==
  /\ hist.ops < MaxRequests
  /\ \E request \in Requests :
       LET W == decrypt_request(TheWorld, request)
           entered == W.server.used_nonces \ server.used_nonces
       IN /\ Becomes(W, [op |-> "decrypt_request", request |-> request, ret |-> W.ret, exc |-> None])
          /\ hist' = [ops |-> hist.ops + 1,
                      accepted |-> hist.accepted \cup entered,
                      returned |-> hist.returned \cup (IF W.exc = None THEN {request.nonce} ELSE {}),
                      between |-> [n \in Nonces |->
                                     IF n \in hist.accepted THEN hist.between[n] + 1 ELSE 0]]

NextNonces ==
  \/ NoncesDecryptRequest

SpecNonces == InitNonces /\ [][NextNonces]_vars

\* C36: decrypt_request rejects with DecryptionException every request
\* whose nonce it accepted before and leaves its state as it was, however
\* many requests, more than max_nonce_count too, it handled in between.
C36_NoReplay ==
  [][(last'.op = "decrypt_request" /\ last'.request.nonce \in hist.accepted) =>
       /\ last'.exc = "DecryptionException"
       /\ server' = server]_vars

\* a request that was returned to its caller is sent again after more than
\* max_nonce_count other requests and is rejected
C36_Witness ==
  /\ last.op = "decrypt_request"
  /\ last.exc = "DecryptionException"
  /\ last.request.nonce \in hist.returned
  /\ hist.between[last.request.nonce] > max_nonce_count + 1


----------------------------------------------------------------------------
(* bot.py: tick_loop, the task that tells a LedgerServer about elapsed     *)
(* ticks.  Its inner while loop has no await, so other tasks run only      *)
(* while it sleeps.                                                        *)

\* what asyncio.sleep and the other tasks let the clock advance by
Naps == {1, tick_duration, 2 * tick_duration + 1}

\* hist.pc: "while" at the test of the inner loop, "sleep" in
\* asyncio.sleep(5), "raised" when an exception has ended the task
InitTickLoop ==
  /\ \E W \in AccountsServers :
       /\ server = W.server
       /\ ledger = W.ledger
       /\ now = W.now
  /\ last = [op |-> "__init__", exc |-> None]
  /\ hist = [ops |-> 0, naps |-> 0, pc |-> "while"]

\* the test of the inner loop is true: notify_tick_elapsed is called
TickLoopNotify ==
  /\ hist.pc = "while"
  /\ LET W0 == time(TheWorld)
     IN /\ W0.ret - server.last_tick_timestamp > tick_duration
        /\ \E W \in LedgerServer_notify_tick_elapsed(W0, <<server.last_tick_timestamp + tick_duration>>) :
             /\ Becomes(W, [op |-> "notify_tick_elapsed", time |-> W0.ret,
                            tick_timestamp |-> server.last_tick_timestamp + tick_duration, exc |-> None])
             /\ hist' = [hist EXCEPT !.pc = IF W.exc = None THEN "while" ELSE "raised"]

\* the test of the inner loop is false: the task goes to sleep
TickLoopSleep ==
  /\ hist.pc = "while"
  /\ LET W0 == time(TheWorld)
     IN /\ ~(W0.ret - server.last_tick_timestamp > tick_duration)
        /\ Becomes(W0, [op |-> "sleep", time |-> W0.ret, exc |-> None])
        /\ hist' = [hist EXCEPT !.pc = "sleep"]

\* asyncio.sleep(5) returns after some time
TickLoopWake ==
  /\ hist.pc = "sleep"
  /\ hist.naps < MaxNaps
  /\ \E nap \in Naps :
       /\ now' = now + nap
       /\ last' = [op |-> "wake", exc |-> None]
  /\ hist' = [hist EXCEPT !.pc = "while", !.naps = @ + 1]
  /\ UNCHANGED <<server, ledger>>

\* another task creates a recurring transfer while the tick loop sleeps
TickLoopCreateRecurringTransfer ==
  /\ hist.pc = "sleep"
  /\ hist.ops < MaxLoopOps
  /\ \E src \in Names, dst \in Names, total_amount \in AnyTotals, tick_count \in AnyTickCounts,
        transfer_id \in AnyTransferIds :
       /\ src # dst
       /\ TransferIndex(TheWorld, transfer_id) = 0
       /\ \E W \in LedgerServer_create_recurring_transfer(
                     TheWorld, src, get_account(TheWorld, src), get_account(TheWorld, dst),
                     total_amount, tick_count, transfer_id) :
            Becomes(W, [op |-> "create_recurring_transfer", exc |-> None])
  /\ hist' = [hist EXCEPT !.ops = @ + 1]

NextTickLoop ==
  \/ TickLoopNotify
  \/ TickLoopSleep
  \/ TickLoopWake
  \/ TickLoopCreateRecurringTransfer

SpecTickLoop == InitTickLoop /\ [][NextTickLoop]_vars

\* C38: every call tick_loop makes of notify_tick_elapsed completes, is
\* given last_tick_timestamp + tick_duration and advances
\* last_tick_timestamp by exactly tick_duration, to no more than the
\* current time; the loop goes to sleep only with less than tick_duration
\* plus one second outstanding, and its task never ends.
C38_TickCatchUp ==
  [][/\ last'.op = "notify_tick_elapsed" =>
          /\ last'.exc = None
          /\ last'.tick_timestamp = server.last_tick_timestamp + tick_duration
          /\ server'.last_tick_timestamp = server.last_tick_timestamp + tick_duration
          /\ server'.last_tick_timestamp <= now'
          /\ Len(ledger') > Len(ledger) /\ CommandOf(ledger'[Len(ledger')]) = "tick"
     /\ last'.op = "sleep" => last'.time - server'.last_tick_timestamp < tick_duration + 1
     /\ hist'.pc # "raised"]_vars


----------------------------------------------------------------------------
(* class SQLServer and its tables.  W.server is the session's view of the  *)
(* database: objs holds the rows of 'accounts' by uuid, aliases, proxies,  *)
(* recurring_transfers and tax the rows of those tables in insertion       *)
(* order; the configuration rows are kept as the attributes __init__       *)
(* reads them into.  A change made before an exception is raised stays in  *)
(* the session and is written by the next commit.                          *)

\* Decimal(x.numerator) / Decimal(x.denominator) read back by Fraction():
\* x itself when x is an integer or a half, as every amount drawn here is;
\* any other value comes back as a rounded decimal, which is marked
Decimal(x) ==
  IF x.d \in {1, 2} THEN Fraction(x.n, x.d)
  ELSE [n |-> x.n, d |-> x.d, frac |-> TRUE, rounded |-> TRUE]

\* a row of 'accounts' with the server defaults of its columns
SQLAccount(account_uuid) ==
  [uuid |-> account_uuid, auth |-> "CITIZEN", balance |-> Zero, frozen |-> FALSE, public |-> FALSE,
   deleted |-> FALSE]

SQLAccount_set_balance(W, account, new_balance) ==
  [W EXCEPT !.server.objs[account].balance = Decimal(new_balance)]

\* SQLAccount.get_proxies(): the proxy_account of the account's proxy rows
SQLAccount_get_proxies(W, account) ==
  {W.server.proxies[i].proxy_account_id :
     i \in {j \in 1..Len(W.server.proxies) : W.server.proxies[j].account = account}}

\* SQLServer.__init__ on an empty database; InMemoryServer.__init__ is not
\* called and no account is opened
SQLServer_init(W) ==
  LET W1 == time(W)
  IN Return([W1 EXCEPT !.server =
               [cls |-> "SQLServer", objs |-> <<>>, aliases |-> <<>>, proxies |-> <<>>,
                recurring_transfers |-> <<>>, tax |-> <<>>, last_tick_timestamp |-> W1.ret,
                ticks_till_tax |-> 28, ticks_till_tax_tmp |-> 28, auto_tax |-> FALSE]], None)

\* SQLServer.get_account(id, deleted)
SQLServer_get_account(W, id, deleted) ==
  LET rows == {i \in 1..Len(W.server.aliases) : W.server.aliases[i].alias_id = IdStr(id)}
  IN IF rows = {} THEN Raise(W, "Account does not exist")
     ELSE IF Cardinality(rows) > 1 THEN Raise(W, "MultipleResultsFound")
     ELSE LET account == W.server.aliases[CHOOSE i \in rows : TRUE].account
          IN IF W.server.objs[account].deleted # deleted THEN Raise(W, "Account does not exist")
             ELSE Return(W, account)

\* SQLServer.has_account(id, deleted); another exception than 'Account does
\* not exist' is raised again
SQLServer_has_account(W, id, deleted) ==
  LET W1 == SQLServer_get_account(W, id, deleted)
  IN IF W1.exc = None THEN Return(W, TRUE)
     ELSE IF W1.exc = "Account does not exist" THEN Return(W, FALSE)
     ELSE W1

SQLServer_get_account_ids(W, account) ==
  LET names == SelectSeq(W.server.aliases, LAMBDA row : row.account = account)
  IN [i \in 1..Len(names) |-> names[i].alias_id]

SQLServer_add_account_alias(W, account, alias_id) ==
  Return([W EXCEPT !.server.aliases = Append(@, [account |-> account, alias_id |-> IdStr(alias_id)])], None)

SQLServer_open_account(W, id, account_uuid) ==
  LET live == SQLServer_has_account(W, id, FALSE)
      gone == SQLServer_has_account(W, id, TRUE)
  IN IF live.exc # None THEN live
     ELSE IF live.ret THEN Raise(W, "Account already exists.")
     ELSE IF gone.exc # None THEN gone
     ELSE IF gone.ret
       THEN LET account == SQLServer_get_account(W, id, TRUE).ret
            IN Return([W EXCEPT !.server.objs[account] = SQLAccount(account)], account)
     ELSE Return(SQLServer_add_account_alias(
                   [W EXCEPT !.server.objs = (account_uuid :> SQLAccount(account_uuid)) @@ @],
                   account_uuid, id),
                 account_uuid)

\* super().authorize(...), then the Action row, whose author is looked up
SQLServer_authorize(W, author, account, auth_level) ==
  LET W1 == [W EXCEPT !.server.objs[account].auth = auth_level]
      A == SQLServer_get_account(W1, author, FALSE)
  IN IF A.exc # None THEN A ELSE Return(W1, None)

SQLServer_set_frozen(W, author, account, is_frozen_) ==
  LET W1 == [W EXCEPT !.server.objs[account].frozen = is_frozen_]
      A == SQLServer_get_account(W1, author, FALSE)
  IN IF A.exc # None THEN A ELSE Return(W1, None)

\* the Transaction row, whose author is looked up, then super().print_money
SQLServer_print_money(W, author, account, amount) ==
  LET A == SQLServer_get_account(W, author, FALSE)
  IN IF A.exc # None THEN A
     ELSE Return(SQLAccount_set_balance(W, account, NumAdd(get_balance(W, account), amount)), None)

SQLServer_add_proxy(W, author, account, proxied_account) ==
  LET row == [account |-> proxied_account, proxy_account_id |-> account]
      W1 == [W EXCEPT !.server.proxies = Append(@, row)]
      A == SQLServer_get_account(W1, author, FALSE)
  IN IF \E i \in 1..Len(W.server.proxies) : W.server.proxies[i] = row THEN Return(W, None)
     ELSE IF A.exc # None THEN A
     ELSE Return(W1, None)

\* .first() gives None when there is no such row, and session.delete(None)
\* raises
SQLServer_remove_proxy(W, author, account, proxied_account) ==
  LET row == [account |-> proxied_account, proxy_account_id |-> account]
      W1 == [W EXCEPT !.server.proxies = SelectSeq(@, LAMBDA r : r # row)]
      A == SQLServer_get_account(W1, author, FALSE)
  IN IF ~\E i \in 1..Len(W.server.proxies) : W.server.proxies[i] = row
       THEN Raise(W, "UnmappedInstanceError")
     ELSE IF A.exc # None THEN A
     ELSE Return(W1, None)

\* the row gets a uuid of its own (uuid4 here); transfer_id is not used
SQLServer_create_recurring_transfer(W, author, source, destination, total_amount, tick_count, uuid4) ==
  LET A == SQLServer_get_account(W, author, FALSE)
      row == [id |-> uuid4, author |-> A.ret, source |-> source, destination |-> destination,
              tick_count |-> tick_count, ticks_left |-> tick_count,
              remaining_amount |-> Decimal(total_amount), total_amount |-> Decimal(total_amount)]
  IN IF A.exc # None THEN A
     ELSE Return([W EXCEPT !.server.recurring_transfers = Append(@, row)], row)

\* InMemoryServer.transfer on SQLAccount rows
SQLAccount_transfer(W, source, destination, amount) ==
  IF ~can_transfer(W, source, destination, amount) THEN Raise(W, "Cannot perform transfer.")
  ELSE LET W1 == SQLAccount_set_balance(W, source, NumSub(get_balance(W, source), amount))
       IN Return(SQLAccount_set_balance(W1, destination, NumAdd(get_balance(W1, destination), amount)), None)

\* SQLServer.perform_recurring_transfer on the i-th row
SQLServer_perform_recurring_transfer(W, i, amount) ==
  LET t == W.server.recurring_transfers[i]
      W1 == SQLAccount_transfer(W, t.source, t.destination, amount)
  IN IF W1.exc # None THEN W1
     ELSE [W1 EXCEPT !.server.recurring_transfers[i].remaining_amount = Decimal(NumSub(@, amount))]

\* TaxMan(self).tax() of force_tax: the TaxMan is new and has no brackets,
\* so get_account_tax is 0 for every account listed and nothing is moved
SQLServer_force_tax(W, author) ==
  LET A == SQLServer_get_account(W, author, FALSE)
  IN IF A.exc # None THEN A
     ELSE Return([W EXCEPT !.server.ticks_till_tax_tmp = W.server.ticks_till_tax], None)

\* the for loop of SQLServer.notify_tick_elapsed over the rows
RECURSIVE SQLTickLoop(_, _, _)
SQLTickLoop(W, i, finished_transfers) ==
  IF W.exc # None THEN W
  ELSE IF i > Len(W.server.recurring_transfers)
    THEN Return([W EXCEPT !.server.recurring_transfers =
                   SelectSeq(@, LAMBDA r : r.id \notin finished_transfers)], None)
  ELSE
    LET t == W.server.recurring_transfers[i]
    IN IF t.tick_count = 0 THEN Raise(W, "ZeroDivisionError")
       ELSE
         LET per_tick == NumDivInt(t.total_amount, t.tick_count)
         IN IF NumLe(t.remaining_amount, Zero)
              THEN SQLTickLoop(W, i + 1, finished_transfers \cup {t.id})
            ELSE IF NumLe(per_tick, t.remaining_amount)
              THEN IF can_transfer(W, t.source, t.destination, per_tick)
                     THEN SQLTickLoop(SQLServer_perform_recurring_transfer(W, i, per_tick), i + 1,
                                      finished_transfers)
                     ELSE SQLTickLoop(W, i + 1, finished_transfers)
            ELSE IF can_transfer(W, t.source, t.destination, t.total_amount)
              THEN SQLTickLoop(SQLServer_perform_recurring_transfer(W, i, t.total_amount), i + 1,
                               finished_transfers \cup {t.id})
              ELSE SQLTickLoop(W, i + 1, finished_transfers)

\* SQLServer.notify_tick_elapsed(tick_timestamp): the timestamp, the Action
\* row authored by the government account, the tax countdown, then the
\* recurring transfers
SQLServer_notify_tick_elapsed(W, tick_timestamp) ==
  LET W0 == IF tick_timestamp = <<>> THEN time(W) ELSE Return(W, tick_timestamp[1])
      W1 == [W0 EXCEPT !.server.last_tick_timestamp = W0.ret]
      G == SQLServer_get_account(W1, <<"@government">>, FALSE)
      W2 == [W1 EXCEPT !.server.ticks_till_tax_tmp = @ - 1]
      W3 == IF ~W1.server.auto_tax THEN W1
            ELSE IF W2.server.ticks_till_tax_tmp = 0 THEN SQLServer_force_tax(W2, <<"@government">>)
            ELSE W2
  IN IF G.exc # None THEN G
     ELSE SQLTickLoop(Return(W3, None), 1, {})

SQLServer_toggle_auto_tax(W, author) ==
  LET W1 == [W EXCEPT !.server.auto_tax = ~@]
      A == SQLServer_get_account(W1, author, FALSE)
  IN IF A.exc # None THEN A ELSE Return(W1, W1.server.auto_tax)

\* the column 'end' is declared nullable=False: a bracket without an end
\* is refused by the commit
SQLServer_add_tax_bracket(W, author, start, end, rate, name, tax_uuid) ==
  IF end = <<>> THEN Raise(W, "IntegrityError")
  ELSE Return([W EXCEPT !.server.tax =
                 Append(@, [uuid |-> tax_uuid, start |-> start, end |-> end, rate |-> rate,
                            name |-> name])], None)


----------------------------------------------------------------------------
(* create_test_servers(): a LedgerServer and an SQLServer that are given   *)
(* the same calls.  Both have opened a (u1) and b (u2) and a has printed   *)
(* itself 2.                                                               *)

TestServers ==
  LET L0 == LedgerServer_init(World(<<>>, <<>>, 0), 3, "g1")
      Ls == Then(Then(LedgerServer_open_account(L0, <<"a">>, "u1"),
                      LAMBDA W : LedgerServer_open_account(W, <<"b">>, "u2")),
                 LAMBDA W : LedgerServer_print_money(W, <<"a">>, "u1", PyInt(2)))
      S0 == SQLServer_init(World(<<>>, <<>>, 0))
      S1 == SQLServer_open_account(S0, <<"a">>, "u1")
      S2 == SQLServer_open_account(S1, <<"b">>, "u2")
      S3 == SQLServer_print_money(S2, <<"a">>, "u1", PyInt(2))
  IN {<<L, S3>> : L \in Ls}

InitRefine ==
  /\ \E pair \in TestServers :
       /\ server = [cls |-> "create_test_servers", LedgerServer |-> pair[1].server,
                    SQLServer |-> pair[2].server]
       /\ ledger = pair[1].ledger
       /\ now = pair[1].now
  /\ last = [op |-> "__init__", exc |-> None, results |-> <<None, None>>]
  /\ hist = [ops |-> 0]

\* the two servers as the callee sees them
OnLedger == World(server.LedgerServer, ledger, now)
OnSQL == World(server.SQLServer, <<>>, now)

\* what a call gave its caller: the exception, or the value printed by p
Outcome(W, p(_)) == IF W.exc # None THEN "raised" ELSE p(W.ret)

\* the pair after a call that ended in WL on the one and in WS on the other
Both(WL, WS, op, p(_)) ==
  /\ server' = [server EXCEPT !.LedgerServer = WL.server, !.SQLServer = WS.server]
  /\ ledger' = WL.ledger
  /\ now' = WL.now
  /\ last' = [op |-> op, exc |-> WL.exc, results |-> <<Outcome(WL, p), Outcome(WS, p)>>]

RefineCounted == hist.ops < MaxRefineOps /\ hist' = [ops |-> hist.ops + 1]

Callers == Names \cup {Government}

StrNone(v) == None

RefineOpenAccount ==
  /\ RefineCounted
  /\ \E id \in AliasNames \cup {Government} :
       \E WL \in LedgerServer_open_account(OnLedger, id, "u3") :
         Both(WL, SQLServer_open_account(OnSQL, id, "u3"), "open_account", LAMBDA v : v)

RefineAuthorize ==
  /\ RefineCounted
  /\ \E author \in Callers, account \in AccountUUIDs, auth_level \in {"ADMIN"} :
       \E WL \in LedgerServer_authorize(OnLedger, author, account, auth_level) :
         Both(WL, SQLServer_authorize(OnSQL, author, account, auth_level), "authorize", StrNone)

RefineSetFrozen ==
  /\ RefineCounted
  /\ \E author \in Callers, account \in AccountUUIDs, frozen \in BOOLEAN :
       \E WL \in LedgerServer_set_frozen(OnLedger, author, account, frozen) :
         Both(WL, SQLServer_set_frozen(OnSQL, author, account, frozen), "set_frozen", StrNone)

RefinePrintMoney ==
  /\ RefineCounted
  /\ \E author \in Callers, account \in AccountUUIDs :
       \E WL \in LedgerServer_print_money(OnLedger, author, account, PyInt(1)) :
         Both(WL, SQLServer_print_money(OnSQL, author, account, PyInt(1)), "print_money", StrNone)

RefineAddProxy ==
  /\ RefineCounted
  /\ \E author \in Callers, account \in AccountUUIDs, proxied_account \in AccountUUIDs :
       \E WL \in LedgerServer_add_proxy(OnLedger, author, account, proxied_account) :
         Both(WL, SQLServer_add_proxy(OnSQL, author, account, proxied_account), "add_proxy", StrNone)

RefineRemoveProxy ==
  /\ RefineCounted
  /\ \E author \in Callers, account \in AccountUUIDs, proxied_account \in AccountUUIDs :
       \E WL \in LedgerServer_remove_proxy(OnLedger, author, account, proxied_account) :
         Both([WL EXCEPT !.ret = StrBool(@)],
              SQLServer_remove_proxy(OnSQL, author, account, proxied_account),
              "remove_proxy", LAMBDA v : v)

\* the transfer objects are compared by what they are to carry
RefineCreateRecurringTransfer ==
  /\ RefineCounted
  /\ \E author \in Callers, source \in AccountUUIDs, destination \in AccountUUIDs,
        tick_count \in 1..MaxTicks :
       /\ source # destination
       /\ Len(server.LedgerServer.recurring_transfers) = 0
       /\ \E WL \in LedgerServer_create_recurring_transfer(OnLedger, author, source, destination,
                                                          PyInt(2), tick_count, "t1") :
            Both(WL, SQLServer_create_recurring_transfer(OnSQL, author, source, destination,
                                                         PyInt(2), tick_count, "t1"),
                 "create_recurring_transfer",
                 LAMBDA t : <<t.source, t.destination, t.tick_count>>)

RefineNotifyTickElapsed ==
  /\ RefineCounted
  /\ \E WL \in LedgerServer_notify_tick_elapsed(OnLedger, <<>>) :
       Both(WL, SQLServer_notify_tick_elapsed(OnSQL, <<>>), "notify_tick_elapsed", StrNone)

RefineToggleAutoTax ==
  /\ RefineCounted
  /\ \E author \in Callers :
       \E WL \in LedgerServer_toggle_auto_tax(OnLedger, author) :
         Both(WL, SQLServer_toggle_auto_tax(OnSQL, author), "toggle_auto_tax", StrBool)

RefineAddTaxBracket ==
  /\ RefineCounted
  /\ \E author \in Callers, end \in {<<>>, <<PyInt(2)>>} :
       \E WL \in LedgerServer_add_tax_bracket(OnLedger, author, PyInt(0), end, PyInt(50), "t") :
         Both(WL, SQLServer_add_tax_bracket(OnSQL, author, PyInt(0), end, PyInt(50), "t", "x1"),
              "add_tax_bracket", StrNone)

NextRefine ==
  \/ RefineOpenAccount
  \/ RefineAuthorize
  \/ RefineSetFrozen
  \/ RefinePrintMoney
  \/ RefineAddProxy
  \/ RefineRemoveProxy
  \/ RefineCreateRecurringTransfer
  \/ RefineNotifyTickElapsed
  \/ RefineToggleAutoTax
  \/ RefineAddTaxBracket

SpecRefine == InitRefine /\ [][NextRefine]_vars

\* an active recurring transfer by what is compared of it
Carried(t) ==
  <<t.source, t.destination, t.tick_count, Fraction(t.total_amount.n, t.total_amount.d),
    Fraction(t.remaining_amount.n, t.remaining_amount.d)>>

\* C35: given the same calls, the LedgerServer and the SQLServer return the
\* same results and hold, for every identity the calls opened, the same
\* balance, authorization level, frozen flag and proxies, and the same
\* active recurring transfers.
C35_SameSemantics ==
  /\ last.results[1] = last.results[2]
  /\ \A id \in Names \cup AliasNames :
       /\ has_account(OnLedger, id) = (SQLServer_get_account(OnSQL, id, FALSE).exc = None)
       /\ has_account(OnLedger, id) /\ SQLServer_get_account(OnSQL, id, FALSE).exc = None =>
            LET l == get_account(OnLedger, id)
                s == SQLServer_get_account(OnSQL, id, FALSE).ret
            IN /\ NumEq(get_balance(OnLedger, l), get_balance(OnSQL, s))
               /\ get_authorization(OnLedger, l) = get_authorization(OnSQL, s)
               /\ is_frozen(OnLedger, l) = is_frozen(OnSQL, s)
               /\ get_proxies(OnLedger, l) = SQLAccount_get_proxies(OnSQL, s)
  /\ [i \in 1..Len(server.LedgerServer.recurring_transfers) |->
        Carried(server.LedgerServer.recurring_transfers[i])]
       = [i \in 1..Len(server.SQLServer.recurring_transfers) |->
            Carried(server.SQLServer.recurring_transfers[i])]


----------------------------------------------------------------------------
(* The scheduler of recurring transfers under disturbance.                 *)

\* C11: every registered recurring transfer has
\* 0 <= remaining_amount <= total_amount in every reachable state.
C11_RemainingWithinTotal ==
  \A i \in 1..Len(server.recurring_transfers) :
    LET t == server.recurring_transfers[i]
    IN /\ NumLe(Zero, t.remaining_amount)
       /\ NumLe(t.remaining_amount, t.total_amount)

\* the watched transfer is one of a positive total
WatchedPositive == hist.watching /\ NumLt(Zero, hist.total_amount)

\* C12, as amended: an installment that cannot be paid in a tick (a frozen
\* account, a source that cannot cover it) is not written off: the remaining
\* amount stays as it was and the installment is attempted again on every
\* later tick.  While the transfer is registered it has delivered one
\* installment for every tick that was not skipped and what remains is the
\* total less what was delivered; it leaves the list only after the whole
\* total was delivered, tick_count + k + 1 ticks after its creation when k
\* ticks were skipped.
C12_SkippedInstallmentIsRetried ==
  WatchedPositive =>
    IF IsListed(server, hist.id)
      THEN /\ NumEq(hist.delivered, NumMul(hist.per_tick, PyInt(hist.ticks - hist.skipped)))
           /\ NumEq(TransferOf(server, hist.id).remaining_amount,
                    NumSub(hist.total_amount, hist.delivered))
      ELSE /\ NumEq(hist.delivered, hist.total_amount)
           /\ hist.ticks = hist.tick_count + hist.skipped + 1

\* C12 as stated: a transfer that skipped k installments has delivered k
\* installments less than its total when it is over.
C12_AsStated ==
  (WatchedPositive /\ ~IsListed(server, hist.id)) =>
    NumEq(hist.delivered, NumSub(hist.total_amount, NumMul(hist.per_tick, PyInt(hist.skipped))))

\* a transfer that skipped an installment has run its course
C12_Witness ==
  /\ WatchedPositive
  /\ hist.skipped >= 1
  /\ ~IsListed(server, hist.id)
  /\ last.op = "notify_tick_elapsed"

====
